---- MODULE Spec2Model ----
(***************************************************************************)
(* rust_action_dispatch: the coordinator's dispatch tick (AgentManager),   *)
(* its agent registry sweeps, the completion ingestor (CommandReceiver)    *)
(* and the agent-side executor, over the jobs / agents / runs collections. *)
(***************************************************************************)
EXTENDS Integers, Sequences, FiniteSets, TLC

\* ------------------------------------------------------------------ bounds
MaxEvents == 2     \* clock ticks, link failures and lost OKs in one run

\* ------------------------------------------------------- program constants
Pending == 0
Running == 1
Completed == 2
Error == 3

Offline == 0
Online == 1

\* ------------------------------------------------------------ input sets
AgentNames == {"a", "b"}
JobNames == {"j1", "j2"}
JobOrder == <<"j1", "j2">>
Sessions == {"s1", "s2"}

VARIABLES
    now,               \* DateTime::now(), in whole ticks of the clock
    jobs,              \* the jobs collection: name -> document
    agents,            \* the agents collection: name -> document
    runs,              \* the runs collection, in insertion order
    connected_agents,  \* AgentManager.connected_agents: the keys of the map
    broken,            \* the keys whose TcpStream no longer carries frames
    down,              \* agent processes that are not running
    tick,              \* the dispatch task's position in its tick
    executing,         \* per agent process: the DispatchJobs whose child runs
    agent_clock,       \* per agent process: its own DateTime::now(), a reading count
    outbox,            \* per agent process: JobCompletes queued for the writer
    sess,              \* per ingestor session: position in complete_agent_run
    sent,              \* history: DispatchJob frames received, per job and agent
    events,            \* history: clock ticks, link failures and lost OKs so far
    wire,              \* one TCP link seen at the level of bytes (see WireIdle)
    rt,                \* the three tasks of AgentManager::start and their mutex
    rl                 \* one agent's CentralCommandWriter and its callers

vars == <<now, jobs, agents, runs, connected_agents, broken, down, tick,
          executing, agent_clock, outbox, sess, sent, events, wire, rt, rl>>

\* ---------------------------------------------------------------- helpers
Range(s) == {s[i] : i \in DOMAIN s}

Count(x, s) == Cardinality({i \in DOMAIN s : s[i] = x})

RemoveAt(s, i) == SubSeq(s, 1, i - 1) \o SubSeq(s, i + 1, Len(s))

\* ------------------------------------------------------------- documents
\* JobV1 as the code reads it (the fields no handler reads are left out)
JobDoc(next_run, command, required) ==
    [status |-> Pending, next_run |-> next_run, command |-> command,
     valid_return_codes |-> <<0>>, agents_required |-> required,
     agents_running |-> <<>>, agents_complete |-> <<>>]

\* AgentV1 built from a RegisterAgent: Offline, last_ping at the epoch
AgentFromRegister(address) ==
    [address |-> address, last_ping |-> 0, status |-> Offline]

\* to_socket_addrs on "hostname:port": the agents' hosts are known by their
\* own name, and a's host also as a.local
Resolve(hostname) == IF hostname = "a.local" THEN "a" ELSE hostname

\* ConnectedAgent built from an AgentV1: its name and its resolved address
ConnectedAgent(name, agent) == [name |-> name, address |-> Resolve(agent.address)]

NoMessage == [kind |-> "None"]

IdleSession == [pc |-> "idle", msg |-> NoMessage, full |-> FALSE]

NoAgent == [name |-> "", address |-> ""]

SleepingTick == [pc |-> "sleep", queue |-> <<>>, todo |-> {}, cur |-> NoAgent,
                 acked |-> {}]

\* the tasks AgentManager::start spawns
Workers == {"ping", "discover", "dispatch"}

\* the tasks not yet looked at: guards are the tasks holding a MutexGuard of
\* the manager, pc each task's position in its loop, silent the agents that
\* read frames and never answer
WorkersIdle == [guards |-> {}, pc |-> [w \in Workers |-> "idle"], silent |-> {},
                fetch_errors |-> 0]

\* the callers of CentralCommandWriter::write in one agent process
Callers == {"register", "ping", "complete"}

\* a writer nobody calls: guards are the callers holding a MutexGuard of the
\* writer, pc each caller's position in write, offset the chunks it wrote in
\* this pass, tries the attempts of its connect_to_central_command, attempts
\* those of its whole write call; up tells whether the coordinator accepts
\* connections, alive whether self.stream still reaches it, bytes are the
\* chunks written on self.stream since it was connected, handled how many of
\* them the ingestor has processed, replies the OKs it sent that were not
\* read, outages the coordinator's failures so far, acked the callers whose
\* write read its OK
ReporterIdle ==
    [guards |-> {}, pc |-> [c \in Callers |-> "idle"],
     offset |-> [c \in Callers |-> 0], tries |-> [c \in Callers |-> 0],
     attempts |-> [c \in Callers |-> 0],
     up |-> TRUE, alive |-> TRUE, bytes |-> <<>>, handled |-> 0, replies |-> 0,
     outages |-> 0, acked |-> {}]

\* a link nobody uses: link is "up" (agent to coordinator), "down"
\* (coordinator to agent) or "codec"; msgs are the messages of the run, net
\* the bytes written and still in flight, stream the bytes that arrived and
\* were not read, fin the peer's close; pc, msg_len and received_data are the
\* reader's position; oks counts the OK replies, handled lists the messages
\* handed to handle_message, emitted (history) is every byte ever written
WireIdle ==
    [link |-> "none", msgs |-> <<>>, written |-> 0, emitted |-> <<>>,
     net |-> <<>>, fin |-> FALSE, stream |-> <<>>, pc |-> "idle", msg_len |-> 0,
     received_data |-> <<>>, oks |-> 0, handled |-> <<>>]

\* ------------------------------------------------------------------ Init
\* The store holds two jobs created outside the core (j1 falls due when the
\* clock passes 1, j2 is due and requires nobody) and the agent that registered
\* in an earlier run; nothing is connected, every task is at the top of its loop.
Init ==
    /\ now = 1
    /\ \E r1 \in {<<"a">>, <<"a", "b">>} :
          jobs = [j \in JobNames |->
                    IF j = "j1" THEN JobDoc(1, "/bin/true", r1)
                                ELSE JobDoc(0, "/bin/false", <<>>)]
    /\ agents = [a \in {"a"} |-> AgentFromRegister(a)]
    /\ runs = <<>>
    /\ connected_agents = {}
    /\ broken = {}
    /\ down = {}
    /\ tick = SleepingTick
    /\ executing = [a \in AgentNames |-> <<>>]
    /\ agent_clock = [a \in AgentNames |-> 1]
    /\ outbox = [a \in AgentNames |-> <<>>]
    /\ sess = [s \in Sessions |-> IdleSession]
    /\ sent = [j \in JobNames |-> [a \in AgentNames |-> 0]]
    /\ events = 0
    /\ wire = WireIdle
    /\ rt = WorkersIdle
    /\ rl = ReporterIdle

\* ------------------------------------------------- the dispatch tick (S)
\* the names handed to get_jobs_to_run
ConnectedNames == {c.name : c \in connected_agents}

\* ClaimFilter without its next_run condition
ClaimFilterNotDue(job, names, timestamp) ==
    /\ job.status = Pending
    /\ job.agents_running = <<>>
    /\ \E i \in DOMAIN job.agents_required : job.agents_required[i] \in names

\* the update_many filter of get_jobs_to_run
ClaimFilter(job, names, timestamp) ==
    /\ job.status = Pending
    /\ job.next_run < timestamp
    /\ job.agents_running = <<>>
    /\ \E i \in DOMAIN job.agents_required : job.agents_required[i] \in names

\* a post_filter on the status alone
PostFilterAnyRunning(job) ==
    job.status = Running

\* the find filter of get_jobs_to_run
PostFilter(job) ==
    /\ job.status = Running
    /\ job.agents_running = <<>>

\* ClaimJobs whose filter has no condition on agents_required
ClaimJobsAnyRequired(J, names, timestamp) ==
    [j \in JobNames |->
        IF /\ J[j].status = Pending
           /\ J[j].next_run < timestamp
           /\ J[j].agents_running = <<>>
        THEN [J[j] EXCEPT !.status = Running]
        ELSE J[j]]

\* an update_many whose filter has no condition on the status
ClaimJobsAnyStatus(J, names, timestamp) ==
    [j \in JobNames |->
        IF /\ J[j].next_run < timestamp
           /\ J[j].agents_running = <<>>
           /\ \E i \in DOMAIN J[j].agents_required : J[j].agents_required[i] \in names
        THEN [J[j] EXCEPT !.status = Running]
        ELSE J[j]]

\* update_many: every matching document gets status Running
ClaimJobs(J, names, timestamp) ==
    [j \in JobNames |->
        IF ClaimFilter(J[j], names, timestamp)
        THEN [J[j] EXCEPT !.status = Running]
        ELSE J[j]]

\* the documents the cursor yields, each with its key
FetchJobs(J) ==
    LET hit == SelectSeq(JobOrder, LAMBDA j : PostFilter(J[j]))
    IN  [i \in DOMAIN hit |-> [name |-> hit[i], doc |-> J[hit[i]]]]

\* every connected agent, required by the job or not
AgentsToRunEveryone(job, connected) ==
    connected

\* run_job's loop: the connected agents whose name the job requires
AgentsToRun(job, connected) ==
    {c \in connected : c.name \in Range(job.doc.agents_required)}

\* what run_job builds for one agent
DispatchJobFor(job, c) ==
    [kind |-> "DispatchJob", job_name |-> job.name, command |-> job.doc.command,
     valid_return_codes |-> <<job.doc.valid_return_codes>>,
     agent_name |-> <<c.name>>]

\* the start of a tick: lock, get_jobs_to_run (claim, then fetch), first job
TickStart ==
    /\ tick.pc = "sleep"
    /\ LET claimed == ClaimJobs(jobs, ConnectedNames, now)
           fetched == FetchJobs(claimed)
       IN  /\ jobs' = claimed
           /\ tick' = IF fetched = <<>>
                      THEN SleepingTick
                      ELSE [pc |-> "run", queue |-> fetched,
                            todo |-> AgentsToRun(Head(fetched), connected_agents),
                            cur |-> NoAgent, acked |-> {}]
    /\ UNCHANGED <<rt, rl, wire, now, agents, runs, connected_agents, broken, down,
                   executing, agent_clock, outbox, sess, sent, events>>

\* a run_job that gives the job up at the first agent that fails
AfterWriteErrorReturn(todo, c) ==
    {}

\* run_job after write_to_agent returned Err for c: the error is logged and
\* the loop continues with the agents left
AfterWriteError(todo, c) ==
    todo \ {c}

\* write_to_agent(DispatchJob) on a working stream: the agent reads the frame,
\* spawns the job and answers OK
TickWriteOk(c) ==
    /\ tick.pc = "run"
    /\ c \in tick.todo
    /\ c \notin broken
    /\ LET job == Head(tick.queue)
           d == DispatchJobFor(job, c)
       IN  /\ executing' = [executing EXCEPT ![c.address] =
                               Append(@, [job_name |-> d.job_name,
                                          command |-> d.command,
                                          valid_return_codes |-> d.valid_return_codes,
                                          started_at |-> agent_clock[c.address]])]
           /\ agent_clock' = [agent_clock EXCEPT ![c.address] = @ + 1]
           /\ sent' = [sent EXCEPT ![job.name][c.name] = @ + 1]
    /\ tick' = [tick EXCEPT !.pc = "acked", !.cur = c, !.todo = @ \ {c}]
    /\ UNCHANGED <<rt, rl, wire, now, jobs, agents, runs, connected_agents, broken, down,
                   outbox, sess, events>>

\* write_to_agent(DispatchJob): the frame reaches the agent and the link fails
\* before the OK is read, so run_job logs the error and goes on
TickWriteAckLost(c) ==
    /\ tick.pc = "run"
    /\ c \in tick.todo
    /\ c \notin broken
    /\ events < MaxEvents
    /\ LET job == Head(tick.queue)
           d == DispatchJobFor(job, c)
       IN  /\ executing' = [executing EXCEPT ![c.address] =
                               Append(@, [job_name |-> d.job_name,
                                          command |-> d.command,
                                          valid_return_codes |-> d.valid_return_codes,
                                          started_at |-> agent_clock[c.address]])]
           /\ agent_clock' = [agent_clock EXCEPT ![c.address] = @ + 1]
           /\ sent' = [sent EXCEPT ![job.name][c.name] = @ + 1]
    /\ broken' = broken \cup {c}
    /\ events' = events + 1
    /\ tick' = [tick EXCEPT !.todo = AfterWriteError(@, c)]
    /\ UNCHANGED <<rt, rl, wire, now, jobs, agents, runs, connected_agents, down, outbox,
                   sess>>

\* write_to_agent(DispatchJob) on a dead stream: an error, nothing is delivered
TickWriteErr(c) ==
    /\ tick.pc = "run"
    /\ c \in tick.todo
    /\ c \in broken
    /\ tick' = [tick EXCEPT !.todo = AfterWriteError(@, c)]
    /\ UNCHANGED <<rt, rl, wire, now, jobs, agents, runs, connected_agents, broken, down,
                   executing, agent_clock, outbox, sess, sent, events>>

\* add_agent_to_running_job(job, name): job is the document the tick fetched
AddAgentToRunningJob(J, job, agent_name) ==
    IF agent_name \notin Range(job.doc.agents_running)
    THEN [J EXCEPT ![job.name].agents_running =
                        Append(job.doc.agents_running, agent_name)]
    ELSE J

\* after the OK: add_agent_to_running_job for the agent just acknowledged
TickAddRunning ==
    /\ tick.pc = "acked"
    /\ jobs' = AddAgentToRunningJob(jobs, Head(tick.queue), tick.cur.name)
    /\ tick' = [tick EXCEPT !.pc = "run", !.cur = NoAgent,
                            !.acked = @ \cup {tick.cur.name}]
    /\ UNCHANGED <<rt, rl, wire, now, agents, runs, connected_agents, broken, down,
                   executing, agent_clock, outbox, sess, sent, events>>

\* run_job returns: the next fetched job, or the lock is dropped and the task sleeps
TickJobDone ==
    /\ tick.pc = "run"
    /\ tick.todo = {}
    /\ LET rest == Tail(tick.queue)
       IN  tick' = IF rest = <<>>
                   THEN SleepingTick
                   ELSE [pc |-> "run", queue |-> rest,
                         todo |-> AgentsToRun(Head(rest), connected_agents),
                         cur |-> NoAgent, acked |-> {}]
    /\ UNCHANGED <<rt, rl, wire, now, jobs, agents, runs, connected_agents, broken, down,
                   executing, agent_clock, outbox, sess, sent, events>>

\* --------------------------------------------- the registry sweeps (R)
\* an update that sets the status and not last_ping
UpdateAgentOnlineStatusOnly(A, names, timestamp) ==
    [n \in DOMAIN A |->
        IF n \in names THEN [A[n] EXCEPT !.status = Online] ELSE A[n]]

\* update_agent_online: last_ping and status of the document with that name
UpdateAgentOnline(A, names, timestamp) ==
    [n \in DOMAIN A |->
        IF n \in names
        THEN [A[n] EXCEPT !.last_ping = timestamp, !.status = Online]
        ELSE A[n]]

\* an update_agent_offline that writes nothing
UpdateAgentOfflineNoop(A, names) ==
    A

\* update_agent_offline: status of the document with that name
UpdateAgentOffline(A, names) ==
    [n \in DOMAIN A |->
        IF n \in names THEN [A[n] EXCEPT !.status = Offline] ELSE A[n]]

\* ping_existing_agents under the lock: a Ping on every stream; the agents
\* whose write or OK failed are set Offline and removed from the map
PingSweep ==
    /\ tick.pc = "sleep"
    /\ LET agents_to_remove == connected_agents \cap broken
           reached == connected_agents \ broken
       IN  /\ agents' = UpdateAgentOffline(
                            UpdateAgentOnline(agents, {c.name : c \in reached}, now),
                            {c.name : c \in agents_to_remove})
           /\ connected_agents' = connected_agents \ agents_to_remove
           /\ broken' = broken \ agents_to_remove
    /\ UNCHANGED <<rt, rl, wire, now, jobs, runs, down, tick, executing, agent_clock, outbox,
                   sess, sent, events>>

\* fetch_database_agents: every document that resolves, as a ConnectedAgent
FetchDatabaseAgents(A) == {ConnectedAgent(n, A[n]) : n \in DOMAIN A}

\* a fetch that finds every agent connected already
FetchUnconnectedAgentsNone(A, connected) ==
    {}

\* fetch_unconnected_agents: those whose (ip, port) no connected agent has
FetchUnconnectedAgents(A, connected) ==
    {f \in FetchDatabaseAgents(A) :
        ~ \E c \in connected : c.address = f.address}

\* check_for_unconnected_agents under the lock: dial every unconnected agent;
\* a stream is kept for each that answers, the others are set Offline
DiscoverSweep ==
    /\ tick.pc = "sleep"
    /\ LET unconnected == FetchUnconnectedAgents(agents, connected_agents)
           dialled == {f \in unconnected : f.address \notin down}
       IN  /\ connected_agents' = connected_agents \cup dialled
           /\ agents' = UpdateAgentOffline(agents,
                                           {f.name : f \in unconnected \ dialled})
    /\ UNCHANGED <<rt, rl, wire, now, jobs, runs, broken, down, tick, executing, agent_clock,
                   outbox, sess, sent, events>>

\* ------------------------------------------------------- the environment
ClockTick ==
    /\ events < MaxEvents
    /\ now' = now + 1
    /\ events' = events + 1
    /\ UNCHANGED <<rt, rl, wire, jobs, agents, runs, connected_agents, broken, down, tick,
                   executing, agent_clock, outbox, sess, sent>>

\* the TCP link from the coordinator to an agent fails
LinkFail(c) ==
    /\ c \in connected_agents \ broken
    /\ events < MaxEvents
    /\ broken' = broken \cup {c}
    /\ events' = events + 1
    /\ UNCHANGED <<rt, rl, wire, now, jobs, agents, runs, connected_agents, down, tick,
                   executing, agent_clock, outbox, sess, sent>>

\* an agent process dies: its children, its report channel and its sockets go
AgentCrash(a) ==
    /\ a \notin down
    /\ events < MaxEvents
    /\ down' = down \cup {a}
    /\ broken' = broken \cup {c \in connected_agents : c.address = a}
    /\ executing' = [executing EXCEPT ![a] = <<>>]
    /\ outbox' = [outbox EXCEPT ![a] = <<>>]
    /\ events' = events + 1
    /\ UNCHANGED <<rt, rl, wire, now, jobs, agents, runs, connected_agents, tick,
                   agent_clock, sess, sent>>

\* the agent process is started again and listens on its port
AgentRestart(a) ==
    /\ a \in down
    /\ down' = down \ {a}
    /\ UNCHANGED <<rt, rl, wire, now, jobs, agents, runs, connected_agents, broken, tick,
                   executing, agent_clock, outbox, sess, sent, events>>

\* ------------------------------------------------- the job executor (E)
\* how the child of a command ends: <<c>> is Some(c), <<>> is no exit code
ExitStatus(command) == IF command = "/bin/true" THEN <<0>> ELSE <<1>>

\* status.code().unwrap_or(-1)
ReturnCode(exit_status) == IF exit_status = <<>> THEN -1 ELSE exit_status[1]

\* an outcome that takes a missing list of valid codes for [0]
ClassifyOutcomeZeroDefault(valid_return_codes, return_code) ==
    IF \/ valid_return_codes = <<>> /\ return_code = 0
       \/ valid_return_codes # <<>> /\ return_code \in Range(valid_return_codes[1])
    THEN "Success"
    ELSE "Failure"

\* Success when valid_return_codes is Some and contains the code
ClassifyOutcome(valid_return_codes, return_code) ==
    IF valid_return_codes # <<>> /\ return_code \in Range(valid_return_codes[1])
    THEN "Success"
    ELSE "Failure"

\* the JobComplete the spawned task posts, as the writer's consumer sends it;
\* command and output are fields of the message type that spawn does not
\* compute: the dispatched command and no output
JobCompleteFor(a, job, exit_status, end_time) ==
    [kind |-> "JobComplete", started_at |-> job.started_at,
     completed_at |-> end_time, job_name |-> job.job_name,
     command |-> job.command, agent_name |-> a,
     return_code |-> ReturnCode(exit_status),
     outcome |-> ClassifyOutcome(job.valid_return_codes, ReturnCode(exit_status)),
     output |-> ""]

\* the child of one dispatched job ends and its JobComplete enters the channel
JobExit(a, i) ==
    /\ a \notin down
    /\ i \in DOMAIN executing[a]
    /\ outbox' = [outbox EXCEPT ![a] =
                     Append(@, JobCompleteFor(a, executing[a][i],
                                              ExitStatus(executing[a][i].command),
                                              agent_clock[a]))]
    /\ agent_clock' = [agent_clock EXCEPT ![a] = @ + 1]
    /\ executing' = [executing EXCEPT ![a] = RemoveAt(@, i)]
    /\ UNCHANGED <<rt, rl, wire, now, jobs, agents, runs, connected_agents, broken, down,
                   tick, sess, sent, events>>

\* --------------------------------------------- the completion ingestor (I)
\* $push in place of $addToSet
AddToSetPush(s, x) == Append(s, x)

\* $addToSet on an array field
AddToSet(s, x) == IF x \in Range(s) THEN s ELSE Append(s, x)

\* From<JobOutCome> for Outcome, stored as its i32
OutcomeOf(job_outcome) ==
    CASE job_outcome = "Failure" -> 0
      [] job_outcome = "Success" -> 1
      [] OTHER -> 2

\* DateTime::from_millis: an instant held as milliseconds since the epoch
DateTimeFromMillis(ms) == [millis |-> ms]

\* DateTime::timestamp_millis
TimestampMillis(dt) == dt.millis

\* From<JobComplete> for RunsV1
RunsFromJobComplete(m) ==
    [started_at |-> DateTimeFromMillis(m.started_at),
     completed_at |-> DateTimeFromMillis(m.completed_at),
     job_name |-> m.job_name, command |-> m.command, agent_name |-> m.agent_name,
     outcome |-> OutcomeOf(m.outcome), return_code |-> m.return_code,
     output |-> m.output]

\* $set of agents_complete to the reporting agent alone
MarkAgentCompleteSet(J, m) ==
    [j \in DOMAIN J |->
        IF j = m.job_name
        THEN [J[j] EXCEPT !.agents_complete = <<m.agent_name>>]
        ELSE J[j]]

\* a $addToSet that is skipped for a run that failed
MarkAgentCompleteOnSuccess(J, m) ==
    [j \in DOMAIN J |->
        IF j = m.job_name /\ m.outcome = "Success"
        THEN [J[j] EXCEPT !.agents_complete = AddToSet(@, m.agent_name)]
        ELSE J[j]]

\* complete_agent_run's update_one: $addToSet agents_complete on the named job
MarkAgentComplete(J, m) ==
    [j \in DOMAIN J |->
        IF j = m.job_name
        THEN [J[j] EXCEPT !.agents_complete = AddToSet(@, m.agent_name)]
        ELSE J[j]]

\* the condition without the comparison of the two lengths
AllAgentsCompleteAnyReport(doc) ==
    /\ doc.agents_complete # <<>>
    /\ doc.agents_required # <<>>

\* the condition of check_job_completion on the document it read
AllAgentsComplete(doc) ==
    /\ Len(doc.agents_required) = Len(doc.agents_complete)
    /\ doc.agents_required # <<>>

\* an update that sets the status and leaves the lists
CompleteJobKeepLists(J, job_name) ==
    [J EXCEPT ![job_name].status = Completed]

\* the update of check_job_completion
CompleteJob(J, job_name) ==
    [J EXCEPT ![job_name].status = Completed,
              ![job_name].agents_running = <<>>,
              ![job_name].agents_complete = <<>>]

\* the RegisterAgent an agent process sends when it starts
RegisterAgentFor(a) ==
    [kind |-> "RegisterAgent", name |-> a, hostname |-> a, port |-> 8081]

\* the unique indexes of the agents collection: name, and (hostname, port)
DuplicateKey(A, name, agent) ==
    \/ name \in DOMAIN A
    \/ \E n \in DOMAIN A : A[n].address = agent.address

\* an insert that replaces the document of a known agent
RegisterAgentUpsert(A, m) ==
    [n \in DOMAIN A \cup {m.name} |->
        IF n = m.name THEN AgentFromRegister(m.hostname) ELSE A[n]]

\* register_agent: insert_one, a duplicate key is logged and ignored
RegisterAgent(A, m) ==
    LET agent == AgentFromRegister(m.hostname)
    IN  IF DuplicateKey(A, m.name, agent)
        THEN A
        ELSE [n \in DOMAIN A \cup {m.name} |->
                 IF n = m.name THEN agent ELSE A[n]]

\* an agent process starts and its RegisterAgent frame is read, acknowledged
\* and handled on a session of its own
IngestRegisterAgent(a) ==
    /\ a \notin down
    /\ agents' = RegisterAgent(agents, RegisterAgentFor(a))
    /\ UNCHANGED <<rt, rl, wire, now, jobs, runs, connected_agents, broken, down, tick,
                   executing, agent_clock, outbox, sess, sent, events>>

\* history: after the $addToSet the job's agents_complete holds exactly the
\* names of its non-empty agents_required
AllRequiredReported(doc) ==
    /\ doc.agents_required # <<>>
    /\ Range(doc.agents_complete) = Range(doc.agents_required)

\* sessions are interchangeable: a new connection gets the first idle one
FreeSession ==
    IF sess["s1"].pc = "idle" THEN {"s1"}
    ELSE IF sess["s2"].pc = "idle" THEN {"s2"} ELSE {}

\* a JobComplete frame is read and decoded, OK is written and read by the agent;
\* complete_agent_run does its $addToSet
IngestJobComplete(s, a) ==
    /\ s \in FreeSession
    /\ a \notin down
    /\ outbox[a] # <<>>
    /\ LET m == Head(outbox[a])
       IN  /\ jobs' = MarkAgentComplete(jobs, m)
           /\ sess' = [sess EXCEPT ![s] =
                          [pc |-> "insert", msg |-> m,
                           full |-> AllRequiredReported(
                                        MarkAgentComplete(jobs, m)[m.job_name])]]
    /\ outbox' = [outbox EXCEPT ![a] = Tail(@)]
    /\ UNCHANGED <<rt, rl, wire, now, agents, runs, connected_agents, broken, down, tick,
                   executing, agent_clock, sent, events>>

\* the same, but the OK never reaches the agent: its writer reconnects and
\* emits the frame again, so the message stays at the head of its queue
IngestJobCompleteOkLost(s, a) ==
    /\ s \in FreeSession
    /\ a \notin down
    /\ outbox[a] # <<>>
    /\ events < MaxEvents
    /\ LET m == Head(outbox[a])
       IN  /\ jobs' = MarkAgentComplete(jobs, m)
           /\ sess' = [sess EXCEPT ![s] =
                          [pc |-> "insert", msg |-> m,
                           full |-> AllRequiredReported(
                                        MarkAgentComplete(jobs, m)[m.job_name])]]
    /\ events' = events + 1
    /\ UNCHANGED <<rt, rl, wire, now, agents, runs, connected_agents, broken, down, tick,
                   executing, agent_clock, outbox, sent>>

\* complete_agent_run: the runs row of the message is inserted
IngestInsertRun(s) ==
    /\ sess[s].pc = "insert"
    /\ runs' = Append(runs, RunsFromJobComplete(sess[s].msg))
    /\ sess' = [sess EXCEPT ![s].pc = "check"]
    /\ UNCHANGED <<rt, rl, wire, now, jobs, agents, connected_agents, broken, down, tick,
                   executing, agent_clock, outbox, sent, events>>

\* a check that goes on to its update when it cannot read one of the arrays
CheckJobCompletionLenient(J, job_name) ==
    /\ job_name \in DOMAIN J
    /\ ("agents_required" \in DOMAIN J[job_name]
          /\ "agents_complete" \in DOMAIN J[job_name])
       => AllAgentsComplete(J[job_name])

\* check_job_completion up to its update: the job is found, get_array reads
\* agents_required and agents_complete, and the condition holds
CheckJobCompletion(J, job_name) ==
    /\ job_name \in DOMAIN J
    /\ "agents_required" \in DOMAIN J[job_name]
    /\ "agents_complete" \in DOMAIN J[job_name]
    /\ AllAgentsComplete(J[job_name])

\* check_job_completion: find_one, then either the update is due or it returns
IngestCheckRead(s) ==
    /\ sess[s].pc = "check"
    /\ sess' = [sess EXCEPT ![s] =
                   IF CheckJobCompletion(jobs, sess[s].msg.job_name)
                   THEN [@ EXCEPT !.pc = "update"]
                   ELSE IdleSession]
    /\ UNCHANGED <<rt, rl, wire, now, jobs, agents, runs, connected_agents, broken, down,
                   tick, executing, agent_clock, outbox, sent, events>>

\* check_job_completion: update_one sets Completed and clears both lists
IngestCheckUpdate(s) ==
    /\ sess[s].pc = "update"
    /\ jobs' = CompleteJob(jobs, sess[s].msg.job_name)
    /\ sess' = [sess EXCEPT ![s] = IdleSession]
    /\ UNCHANGED <<rt, rl, wire, now, agents, runs, connected_agents, broken, down, tick,
                   executing, agent_clock, outbox, sent, events>>

\* ------------------------------------------------- the wire codec (W)
\* the strings that occur in messages, and their UTF-8 bytes
WireStrings == {"", "a", "b", "j1", "/bin/true"}

Utf8(s) ==
    CASE s = "" -> <<>>
      [] s = "a" -> <<97>>
      [] s = "b" -> <<98>>
      [] s = "j1" -> <<106, 49>>
      [] s = "/bin/true" -> <<47, 98, 105, 110, 47, 116, 114, 117, 101>>

\* ArchivedString::to_string: the string of validated bytes; bytes that spell
\* none of WireStrings are kept as they are
FromUtf8(bs) ==
    IF \E s \in WireStrings : Utf8(s) = bs
    THEN CHOOSE s \in WireStrings : Utf8(s) = bs
    ELSE [raw |-> bs]

\* the Message values: None is <<>> and Some(x) is <<x>>
PingMessage == [kind |-> "Ping"]

RegisterAgentMessages ==
    [kind : {"RegisterAgent"}, name : {"a", "b"}, hostname : {"a", "b"},
     port : {0, 8081, 65535}]

DispatchJobMessages ==
    [kind : {"DispatchJob"}, job_name : {"j1"}, command : {"/bin/true"},
     args : {"", "a"}, agent_name : {<<>>, <<"a">>, <<"b">>},
     valid_return_codes : {<<>>, <<<<>>>>, <<<<0>>>>, <<<<0, -1>>>>}]

JobCompleteMessages ==
    [kind : {"JobComplete"}, started_at : {1}, completed_at : {2},
     job_name : {"j1"}, command : {"/bin/true"}, agent_name : {"a", "b"},
     return_code : {-1, 0, 1}, outcome : {"Failure", "Success", "Unknown"},
     output : {"", "a"}]

Messages ==
    {PingMessage} \cup RegisterAgentMessages \cup DispatchJobMessages
        \cup JobCompleteMessages

\* the low w bytes of a natural number, least significant first
LEBytes(n, w) ==
    [i \in 1..w |-> (IF i <= 4 THEN n \div (256 ^ (i - 1)) ELSE 0) % 256]

\* an integer of w bytes in two's complement, least significant byte first
IntLE(n, w) ==
    IF n >= 0
    THEN LEBytes(n, w)
    ELSE [i \in 1..w |-> 255 - LEBytes(-n - 1, w)[i]]

\* the natural number up to four bytes spell
RECURSIVE LEValue(_)
LEValue(bs) ==
    IF bs = <<>> THEN 0 ELSE Head(bs) + 256 * LEValue(Tail(bs))

\* the integer w bytes of two's complement spell; one that does not fit in
\* 32 bits is kept as its bytes
FromIntLE(bs) ==
    LET neg == bs[Len(bs)] >= 128
        mag == [i \in DOMAIN bs |-> IF neg THEN 255 - bs[i] ELSE bs[i]]
        low == SubSeq(mag, 1, IF Len(mag) < 4 THEN Len(mag) ELSE 4)
        fits == /\ \A i \in DOMAIN mag : i > 4 => mag[i] = 0
                /\ Len(mag) >= 4 => mag[4] < 128
    IN  IF fits
        THEN IF neg THEN -LEValue(low) - 1 ELSE LEValue(low)
        ELSE [wide |-> bs]

\* the discriminants of Message and of JobOutCome
MessageTag(kind) ==
    CASE kind = "Ping" -> 0
      [] kind = "RegisterAgent" -> 1
      [] kind = "DispatchJob" -> 2
      [] kind = "JobComplete" -> 3

JobOutComeTag(outcome) ==
    CASE outcome = "Failure" -> 0
      [] outcome = "Success" -> 1
      [] outcome = "Unknown" -> 2

\* the archive of a String, of an Option<String>, of a Vec<i32> and of an
\* Option<Vec<i32>>: a length or a presence byte, then the content
ArchiveString(s) == <<Len(Utf8(s))>> \o Utf8(s)

ArchiveOptionString(o) ==
    IF o = <<>> THEN <<0>> ELSE <<1>> \o ArchiveString(o[1])

RECURSIVE ArchiveI32s(_)
ArchiveI32s(v) ==
    IF v = <<>> THEN <<>> ELSE IntLE(Head(v), 4) \o ArchiveI32s(Tail(v))

ArchiveOptionVecI32(o) ==
    IF o = <<>> THEN <<0>> ELSE <<1, Len(o[1])>> \o ArchiveI32s(o[1])

\* TryFrom<Message> for Vec<u8>: rkyv::to_bytes, as the discriminant followed
\* by the fields of the variant in the order of their declaration
ToBytes(m) ==
    <<MessageTag(m.kind)>> \o
    CASE m.kind = "Ping" -> <<>>
      [] m.kind = "RegisterAgent" ->
            ArchiveString(m.name) \o ArchiveString(m.hostname) \o IntLE(m.port, 2)
      [] m.kind = "DispatchJob" ->
            ArchiveString(m.job_name) \o ArchiveString(m.command)
                \o ArchiveString(m.args) \o ArchiveOptionString(m.agent_name)
                \o ArchiveOptionVecI32(m.valid_return_codes)
      [] m.kind = "JobComplete" ->
            IntLE(m.started_at, 8) \o IntLE(m.completed_at, 8)
                \o ArchiveString(m.job_name) \o ArchiveString(m.command)
                \o ArchiveString(m.agent_name) \o IntLE(m.return_code, 4)
                \o <<JobOutComeTag(m.outcome)>> \o ArchiveString(m.output)

\* what reading one archived value from the front of a buffer gives
ReadFail == [ok |-> FALSE, val |-> <<>>, rest |-> <<>>]

ReadBytes(bs, n) ==
    IF n <= Len(bs)
    THEN [ok |-> TRUE, val |-> SubSeq(bs, 1, n), rest |-> SubSeq(bs, n + 1, Len(bs))]
    ELSE ReadFail

\* the archived value of one field type, still as validated bytes: a string
\* is its bytes, an integer its bytes, an option <<>> or <<value>>
ReadField(bs, type) ==
    CASE type = "String" ->
            IF bs = <<>> THEN ReadFail ELSE ReadBytes(Tail(bs), Head(bs))
      [] type = "u16" -> ReadBytes(bs, 2)
      [] type = "i32" -> ReadBytes(bs, 4)
      [] type = "i64" -> ReadBytes(bs, 8)
      [] type = "JobOutCome" ->
            IF bs # <<>> /\ Head(bs) \in 0..2
            THEN [ok |-> TRUE, val |-> Head(bs), rest |-> Tail(bs)]
            ELSE ReadFail
      [] type = "Option<String>" ->
            IF bs = <<>> \/ Head(bs) \notin 0..1 THEN ReadFail
            ELSE IF Head(bs) = 0
                 THEN [ok |-> TRUE, val |-> <<>>, rest |-> Tail(bs)]
                 ELSE IF Tail(bs) = <<>> THEN ReadFail
                      ELSE LET r == ReadBytes(Tail(Tail(bs)), Head(Tail(bs)))
                           IN  [r EXCEPT !.val = IF r.ok THEN <<r.val>> ELSE <<>>]
      [] type = "Option<Vec<i32>>" ->
            IF bs = <<>> \/ Head(bs) \notin 0..1 THEN ReadFail
            ELSE IF Head(bs) = 0
                 THEN [ok |-> TRUE, val |-> <<>>, rest |-> Tail(bs)]
                 ELSE IF Tail(bs) = <<>> THEN ReadFail
                      ELSE LET n == Head(Tail(bs))
                               r == ReadBytes(Tail(Tail(bs)), 4 * n)
                           IN  [r EXCEPT !.val =
                                   IF r.ok
                                   THEN <<[i \in 1..n |->
                                            SubSeq(r.val, 4 * i - 3, 4 * i)]>>
                                   ELSE <<>>]

\* the fields of a variant, read one after the other
RECURSIVE ReadFields(_, _)
ReadFields(bs, types) ==
    IF types = <<>>
    THEN [ok |-> TRUE, val |-> <<>>, rest |-> bs]
    ELSE LET r == ReadField(bs, Head(types))
         IN  IF ~r.ok THEN ReadFail
             ELSE LET q == ReadFields(r.rest, Tail(types))
                  IN  IF ~q.ok THEN ReadFail
                      ELSE [q EXCEPT !.val = <<r.val>> \o q.val]

\* the field types of each variant, in the order of declaration
Layout(tag) ==
    CASE tag = 0 -> <<>>
      [] tag = 1 -> <<"String", "String", "u16">>
      [] tag = 2 -> <<"String", "String", "String", "Option<String>",
                      "Option<Vec<i32>>">>
      [] tag = 3 -> <<"i64", "i64", "String", "String", "String", "i32",
                      "JobOutCome", "String">>

\* rkyv::access::<ArchivedMessage>: the buffer validated as one archive, or
\* an error (ok = FALSE)
Access(bytes) ==
    IF bytes = <<>> \/ Head(bytes) \notin 0..3
    THEN [ok |-> FALSE, tag |-> 0, fields |-> <<>>]
    ELSE LET r == ReadFields(Tail(bytes), Layout(Head(bytes)))
         IN  IF r.ok /\ r.rest = <<>>
             THEN [ok |-> TRUE, tag |-> Head(bytes), fields |-> r.val]
             ELSE [ok |-> FALSE, tag |-> 0, fields |-> <<>>]

\* From<&ArchivedJobOutCome> for JobOutCome
FromArchivedJobOutCome(archived) ==
    CASE archived = 0 -> "Failure"
      [] archived = 1 -> "Success"
      [] archived = 2 -> "Unknown"

\* a conversion of JobComplete that takes job_name from the agent's name
FromArchivedMessageSwapped(archived) ==
    LET f == archived.fields
    IN  CASE archived.tag = 0 -> PingMessage
          [] archived.tag = 1 ->
                [kind |-> "RegisterAgent", name |-> FromUtf8(f[1]),
                 hostname |-> FromUtf8(f[2]), port |-> LEValue(f[3])]
          [] archived.tag = 2 ->
                [kind |-> "DispatchJob", job_name |-> FromUtf8(f[1]),
                 command |-> FromUtf8(f[2]), args |-> FromUtf8(f[3]),
                 agent_name |-> IF f[4] = <<>> THEN <<>> ELSE <<FromUtf8(f[4][1])>>,
                 valid_return_codes |->
                    IF f[5] = <<>> THEN <<>>
                    ELSE <<[i \in DOMAIN f[5][1] |-> FromIntLE(f[5][1][i])]>>]
          [] archived.tag = 3 ->
                [kind |-> "JobComplete", started_at |-> FromIntLE(f[1]),
                 completed_at |-> FromIntLE(f[2]), job_name |-> FromUtf8(f[5]),
                 command |-> FromUtf8(f[4]), agent_name |-> FromUtf8(f[5]),
                 return_code |-> FromIntLE(f[6]),
                 outcome |-> FromArchivedJobOutCome(f[7]),
                 output |-> FromUtf8(f[8])]

\* From<&ArchivedMessage> for Message: every field of the variant converted
FromArchivedMessage(archived) ==
    LET f == archived.fields
    IN  CASE archived.tag = 0 -> PingMessage
          [] archived.tag = 1 ->
                [kind |-> "RegisterAgent", name |-> FromUtf8(f[1]),
                 hostname |-> FromUtf8(f[2]), port |-> LEValue(f[3])]
          [] archived.tag = 2 ->
                [kind |-> "DispatchJob", job_name |-> FromUtf8(f[1]),
                 command |-> FromUtf8(f[2]), args |-> FromUtf8(f[3]),
                 agent_name |-> IF f[4] = <<>> THEN <<>> ELSE <<FromUtf8(f[4][1])>>,
                 valid_return_codes |->
                    IF f[5] = <<>> THEN <<>>
                    ELSE <<[i \in DOMAIN f[5][1] |-> FromIntLE(f[5][1][i])]>>]
          [] archived.tag = 3 ->
                [kind |-> "JobComplete", started_at |-> FromIntLE(f[1]),
                 completed_at |-> FromIntLE(f[2]), job_name |-> FromUtf8(f[3]),
                 command |-> FromUtf8(f[4]), agent_name |-> FromUtf8(f[5]),
                 return_code |-> FromIntLE(f[6]),
                 outcome |-> FromArchivedJobOutCome(f[7]),
                 output |-> FromUtf8(f[8])]

\* TryFrom<Vec<u8>> for Message: <<m>> is Ok(m), <<>> is Err
FromBytes(bytes) ==
    LET archived == Access(bytes)
    IN  IF archived.ok THEN <<FromArchivedMessage(archived)>> ELSE <<>>

\* ---------------------------------------------------------- specification
Next ==
    \/ TickStart
    \/ \E c \in connected_agents : TickWriteOk(c)
    \/ \E c \in connected_agents : TickWriteErr(c)
    \/ TickAddRunning
    \/ TickJobDone
    \/ PingSweep
    \/ DiscoverSweep
    \/ ClockTick
    \/ \E c \in connected_agents : LinkFail(c)
    \/ \E a \in AgentNames, i \in 1..2 : JobExit(a, i)
    \/ \E a \in AgentNames : IngestRegisterAgent(a)
    \/ \E s \in Sessions, a \in AgentNames : IngestJobComplete(s, a)
    \/ \E s \in Sessions, a \in AgentNames : IngestJobCompleteOkLost(s, a)
    \/ \E s \in Sessions : IngestInsertRun(s)
    \/ \E s \in Sessions : IngestCheckRead(s)
    \/ \E s \in Sessions : IngestCheckUpdate(s)

Spec == Init /\ [][Next]_vars

\* the same system on links that can also fail between a frame and its OK
NextAckLost ==
    \/ Next
    \/ \E c \in connected_agents : TickWriteAckLost(c)

SpecAckLost == Init /\ [][NextAckLost]_vars

\* the same system when nothing fails: every link stays up, every OK arrives
\* and no agent process dies
NextLive ==
    \/ TickStart
    \/ \E c \in connected_agents : TickWriteOk(c)
    \/ TickAddRunning
    \/ TickJobDone
    \/ PingSweep
    \/ DiscoverSweep
    \/ ClockTick
    \/ \E a \in AgentNames, i \in 1..2 : JobExit(a, i)
    \/ \E a \in AgentNames : IngestRegisterAgent(a)
    \/ \E s \in Sessions, a \in AgentNames : IngestJobComplete(s, a)
    \/ \E s \in Sessions : IngestInsertRun(s)
    \/ \E s \in Sessions : IngestCheckRead(s)
    \/ \E s \in Sessions : IngestCheckUpdate(s)

\* the dispatch task: its loop wakes every second and each await returns
TickTask ==
    \/ TickStart
    \/ \E c \in connected_agents : TickWriteOk(c)
    \/ TickAddRunning
    \/ TickJobDone

\* the task spawned for one accepted connection runs to its end
SessionTask(s) ==
    \/ IngestInsertRun(s)
    \/ IngestCheckRead(s)
    \/ IngestCheckUpdate(s)

\* the tokio runtime polls every spawned task that can make progress, its
\* mutex is fair, children exit and the writer's consumer sends what is queued
Fairness ==
    /\ WF_vars(TickTask)
    /\ WF_vars(PingSweep)
    /\ WF_vars(DiscoverSweep)
    /\ \A a \in AgentNames : WF_vars(\E i \in 1..2 : JobExit(a, i))
    /\ \A a \in AgentNames : WF_vars(\E s \in Sessions : IngestJobComplete(s, a))
    /\ \A s \in Sessions : WF_vars(SessionTask(s))

SpecLive == Init /\ [][NextLive]_vars /\ Fairness

\* ------------------------------------------------------------------ claims
\* the moment run_job has finished with the job at the head of the queue:
\* its last agent was written to (and, if acknowledged, recorded)
RunJobEnds ==
    /\ tick' # tick
    /\ tick'.pc = "run"
    /\ tick'.todo = {}

\* a session returns from complete_agent_run
IngestionEnds(s) ==
    /\ sess[s].pc # "idle"
    /\ sess'[s].pc = "idle"

\* one more delivery of m, run on its own from the store J
Redeliver(J, m) ==
    LET marked == MarkAgentComplete(J, m)
    IN  IF AllAgentsComplete(marked[m.job_name])
        THEN CompleteJob(marked, m.job_name)
        ELSE marked

\* ------------------------------------------- one TCP link, byte by byte
CHUNKS_SIZE == 4096          \* command_receiver.rs: the ingestor's read size
AGENT_CHUNKS_SIZE == 8192    \* agent main.rs: the reporter's write size
LISTEN_BUFFER == 65536       \* agent main.rs: the listener's read buffer

MaxFrames == 2     \* messages or frames put on one link in one run

Min(x, y) == IF x <= y THEN x ELSE y

\* u32::to_be_bytes and u32::from_be_bytes, for lengths below 2^31
U32ToBE(n) ==
    [i \in 1..4 |-> (n \div (256 ^ (4 - i))) % 256]

U32FromBE(len_buf) ==
    LEValue([i \in 1..4 |-> len_buf[5 - i]])

\* the frame the ingestor reads: a 4-byte big-endian length, then the payload
Frame(payload) == U32ToBE(Len(payload)) \o payload

ZeroFrame == U32ToBE(0)

\* the slices [offset..end] a writer passes to write_all, one after the other
RECURSIVE Chunks(_, _)
Chunks(serialized, size) ==
    IF serialized = <<>> THEN <<>>
    ELSE LET end == Min(size, Len(serialized))
         IN  <<SubSeq(serialized, 1, end)>>
                 \o Chunks(SubSeq(serialized, end + 1, Len(serialized)), size)

RECURSIVE Concat(_)
Concat(ss) == IF ss = <<>> THEN <<>> ELSE Head(ss) \o Concat(Tail(ss))

\* CentralCommandWriter::write: the bytes one pass of its loop puts on the link
CentralCommandWriterWrite(m) == Concat(Chunks(ToBytes(m), AGENT_CHUNKS_SIZE))

\* Message::tcp_write: the bytes it puts on the link
TcpWriteBytes(m) == ToBytes(m)

\* the messages each side sends in the runs examined
UpMessages ==
    {RegisterAgentFor("b"),
     [kind |-> "JobComplete", started_at |-> 1, completed_at |-> 2,
      job_name |-> "j1", command |-> "/bin/true", agent_name |-> "a",
      return_code |-> 0, outcome |-> "Success", output |-> ""]}

DownMessages ==
    {PingMessage,
     [kind |-> "DispatchJob", job_name |-> "j1", command |-> "/bin/true",
      args |-> "", agent_name |-> <<"a">>, valid_return_codes |-> <<<<0>>>>]}

\* the sequences of 1..n elements of S
SeqsUpTo(S, n) == UNION {[1..k -> S] : k \in 1..n}

\* the store while a's report of j1 is on its way: a was connected and pinged,
\* j1 was dispatched to a and recorded, the child has exited, every task of
\* the core is at rest
InitDispatched ==
    /\ now = 2
    /\ jobs = [j \in JobNames |->
                 IF j = "j1"
                 THEN [JobDoc(1, "/bin/true", <<"a">>) EXCEPT
                          !.status = Running, !.agents_running = <<"a">>]
                 ELSE JobDoc(0, "/bin/false", <<>>)]
    /\ agents = UpdateAgentOnline([a \in {"a"} |-> AgentFromRegister(a)], {"a"}, 1)
    /\ runs = <<>>
    /\ connected_agents = {ConnectedAgent("a", AgentFromRegister("a"))}
    /\ broken = {}
    /\ down = {}
    /\ tick = SleepingTick
    /\ executing = [a \in AgentNames |-> <<>>]
    /\ agent_clock = [a \in AgentNames |-> IF a = "a" THEN 3 ELSE 1]
    /\ outbox = [a \in AgentNames |-> <<>>]
    /\ sess = [s \in Sessions |-> IdleSession]
    /\ sent = [j \in JobNames |->
                 [a \in AgentNames |-> IF j = "j1" /\ a = "a" THEN 1 ELSE 0]]
    /\ events = 1

StoreUnchanged ==
    UNCHANGED <<rt, rl, now, jobs, agents, runs, connected_agents, broken, down,
                tick, executing, agent_clock, outbox, sess, sent, events>>

\* ---- the codec on its own
InitCodec ==
    /\ InitDispatched
    /\ rt = WorkersIdle
    /\ rl = ReporterIdle
    /\ \E m \in Messages :
          wire = [WireIdle EXCEPT !.link = "codec", !.msgs = <<m>>,
                                  !.pc = "encode"]

\* message.try_into(): Vec<u8>
CodecEncode ==
    /\ wire.pc = "encode"
    /\ wire' = [wire EXCEPT !.net = ToBytes(wire.msgs[1]), !.pc = "decode"]
    /\ StoreUnchanged

\* received.try_into(): Message
CodecDecode ==
    /\ wire.pc = "decode"
    /\ wire' = [wire EXCEPT !.handled = FromBytes(wire.net), !.pc = "decoded"]
    /\ StoreUnchanged

NextCodec == CodecEncode \/ CodecDecode

SpecCodec == InitCodec /\ [][NextCodec]_vars

\* ---- the network
\* some of the bytes in flight arrive, as one segment
NetDeliver(k) ==
    /\ k \in 1..Len(wire.net)
    /\ wire' = [wire EXCEPT !.stream = @ \o SubSeq(wire.net, 1, k),
                            !.net = SubSeq(@, k + 1, Len(@))]
    /\ StoreUnchanged

\* the peer closes its end once everything it wrote has arrived
PeerClose ==
    /\ wire.link \in {"up", "down"}
    /\ ~wire.fin
    /\ wire.net = <<>>
    /\ wire.written = Len(wire.msgs)
    /\ wire.pc \notin {"closed", "failed"}
    /\ wire' = [wire EXCEPT !.fin = TRUE]
    /\ StoreUnchanged

\* ---- the reporter link: CentralCommandWriter to the ingestor
\* one pass of write's loop, once the previous message has its OK
WriterWrite ==
    /\ wire.link = "up"
    /\ wire.written < Len(wire.msgs)
    /\ wire.written = wire.oks
    /\ ~wire.fin
    /\ LET bytes == CentralCommandWriterWrite(wire.msgs[wire.written + 1])
       IN  wire' = [wire EXCEPT !.written = @ + 1, !.net = @ \o bytes,
                                !.emitted = @ \o bytes]
    /\ StoreUnchanged

\* a read_message_length that takes 0 for a length like any other
ReadMessageLengthAny(len_buf) ==
    <<U32FromBE(len_buf)>>

\* read_message_length on the four bytes read: <<>> is None, <<n>> is Some(n)
ReadMessageLength(len_buf) ==
    IF U32FromBE(len_buf) = 0 THEN <<>> ELSE <<U32FromBE(len_buf)>>

\* process_messages at read_message_length: read_exact of four bytes, or the
\* end of the stream before them
SessReadLength ==
    /\ wire.link = "up"
    /\ wire.pc = "length"
    /\ \/ /\ Len(wire.stream) >= 4
          /\ LET msg_len == ReadMessageLength(SubSeq(wire.stream, 1, 4))
             IN  wire' = [wire EXCEPT
                            !.stream = SubSeq(@, 5, Len(@)),
                            !.pc = IF msg_len = <<>> THEN "closed" ELSE "body",
                            !.msg_len = IF msg_len = <<>> THEN 0 ELSE msg_len[1],
                            !.received_data = <<>>]
       \/ /\ Len(wire.stream) < 4
          /\ wire.fin
          /\ wire.net = <<>>
          /\ wire' = [wire EXCEPT !.stream = <<>>, !.pc = "closed"]
    /\ StoreUnchanged

\* one turn of read_message_body's loop: a read of at most CHUNKS_SIZE bytes,
\* or the end of the stream (an error)
SessReadBody ==
    /\ wire.link = "up"
    /\ wire.pc = "body"
    /\ Len(wire.received_data) < wire.msg_len
    /\ \/ /\ wire.stream # <<>>
          /\ LET to_read == Min(CHUNKS_SIZE, wire.msg_len - Len(wire.received_data))
                 n == Min(to_read, Len(wire.stream))
             IN  wire' = [wire EXCEPT
                            !.received_data = @ \o SubSeq(wire.stream, 1, n),
                            !.stream = SubSeq(@, n + 1, Len(@))]
       \/ /\ wire.stream = <<>>
          /\ wire.fin
          /\ wire.net = <<>>
          /\ wire' = [wire EXCEPT !.pc = "failed"]
    /\ StoreUnchanged

\* handle_message on the store: register_agent, complete_agent_run, or nothing
HandleMessage(m) ==
    /\ agents' = IF m.kind = "RegisterAgent" THEN RegisterAgent(agents, m)
                 ELSE agents
    /\ jobs' = IF m.kind = "JobComplete" THEN Redeliver(jobs, m) ELSE jobs
    /\ runs' = IF m.kind = "JobComplete"
               THEN Append(runs, RunsFromJobComplete(m))
               ELSE runs

\* process_messages once the body is complete: decode (an error ends the
\* session), write OK, handle_message, back to the top of the loop
SessHandle ==
    /\ wire.link = "up"
    /\ wire.pc = "body"
    /\ Len(wire.received_data) = wire.msg_len
    /\ LET message == FromBytes(wire.received_data)
       IN  IF message = <<>>
           THEN /\ wire' = [wire EXCEPT !.pc = "failed"]
                /\ UNCHANGED <<agents, jobs, runs>>
           ELSE /\ wire' = [wire EXCEPT !.pc = "length", !.oks = @ + 1,
                                        !.handled = Append(@, message[1]),
                                        !.received_data = <<>>]
                /\ HandleMessage(message[1])
    /\ UNCHANGED <<rt, rl, now, connected_agents, broken, down, tick, executing,
                   agent_clock, outbox, sess, sent, events>>

\* ---- the dispatch link: AgentManager::write_to_agent to the agent's listener
\* tcp_write, once the previous message has its OK
TcpWrite ==
    /\ wire.link = "down"
    /\ wire.written < Len(wire.msgs)
    /\ wire.written = wire.oks
    /\ ~wire.fin
    /\ LET bytes == TcpWriteBytes(wire.msgs[wire.written + 1])
       IN  wire' = [wire EXCEPT !.written = @ + 1, !.net = @ \o bytes,
                                !.emitted = @ \o bytes]
    /\ StoreUnchanged

\* one turn of the listener's loop: whatever one read returns is taken for a
\* whole message; a parse failure is logged and the loop goes on without OK
ListenRead ==
    /\ wire.link = "down"
    /\ wire.pc = "listen"
    /\ \/ /\ wire.stream # <<>>
          /\ LET n == Min(LISTEN_BUFFER, Len(wire.stream))
                 message == FromBytes(SubSeq(wire.stream, 1, n))
             IN  wire' = [wire EXCEPT
                            !.stream = SubSeq(@, n + 1, Len(@)),
                            !.oks = IF message = <<>> THEN @ ELSE @ + 1,
                            !.handled = IF message = <<>> THEN @
                                        ELSE Append(@, message[1])]
       \/ /\ wire.stream = <<>>
          /\ wire.fin
          /\ wire.net = <<>>
          /\ wire' = [wire EXCEPT !.pc = "closed"]
    /\ StoreUnchanged

\* both links as the code writes to them
InitLink ==
    /\ InitDispatched
    /\ rt = WorkersIdle
    /\ rl = ReporterIdle
    /\ \/ \E ms \in SeqsUpTo(UpMessages, MaxFrames) :
             wire = [WireIdle EXCEPT !.link = "up", !.msgs = ms, !.pc = "length"]
       \/ \E ms \in SeqsUpTo(DownMessages, MaxFrames) :
             wire = [WireIdle EXCEPT !.link = "down", !.msgs = ms, !.pc = "listen"]

NextLink ==
    \/ WriterWrite
    \/ TcpWrite
    \/ \E k \in 1..Len(wire.net) : NetDeliver(k)
    \/ PeerClose
    \/ SessReadLength
    \/ SessReadBody
    \/ ListenRead

SpecLink == InitLink /\ [][NextLink]_vars

\* an ingestor session fed with well-formed frames: each element of msgs is a
\* message, sent as Frame(ToBytes(m)), or NoMessage, sent as a frame of length 0
FrameOf(m) == IF m = NoMessage THEN ZeroFrame ELSE Frame(ToBytes(m))

RECURSIVE FramesOf(_)
FramesOf(ms) == IF ms = <<>> THEN <<>> ELSE FrameOf(Head(ms)) \o FramesOf(Tail(ms))

SessionInputs == UpMessages \cup {RegisterAgentFor("a"), PingMessage, NoMessage}

InitSession ==
    /\ InitDispatched
    /\ rt = WorkersIdle
    /\ rl = ReporterIdle
    /\ \E ms \in SeqsUpTo(SessionInputs, MaxFrames) :
          wire = [WireIdle EXCEPT !.link = "up", !.msgs = ms,
                                  !.written = Len(ms), !.net = FramesOf(ms),
                                  !.emitted = FramesOf(ms), !.pc = "length"]

NextSession ==
    \/ \E k \in 1..Len(wire.net) : NetDeliver(k)
    \/ PeerClose
    \/ SessReadLength
    \/ SessReadBody
    \/ SessHandle

SpecSession == InitSession /\ [][NextSession]_vars

\* C1: no (job, agent) pair receives more than one DispatchJob frame; a job
\* is claimed Pending -> Running once, so every frame belongs to that claim.
C1_AtMostOnceDispatch ==
    \A j \in JobNames, a \in AgentNames : sent[j][a] <= 1

C3_CompletedListsEmpty ==
    \A j \in JobNames :
        jobs[j].status = Completed
            => jobs[j].agents_running = <<>> /\ jobs[j].agents_complete = <<>>

\* C4: an ingestion whose $addToSet left agents_complete equal, as a set, to a
\* non-empty agents_required returns with the job Completed and both lists empty.
C4_FullIngestionCompletes ==
    [][\A s \in Sessions :
          (IngestionEnds(s) /\ sess[s].full)
              => LET doc == jobs'[sess[s].msg.job_name]
                 IN  /\ doc.status = Completed
                     /\ doc.agents_running = <<>>
                     /\ doc.agents_complete = <<>>]_vars

\* C5: the $addToSet step of an ingested JobComplete from agent a for job J
\* leaves a in agents_complete(J) exactly once, and the insert step of that
\* ingestion appends exactly one runs row, whose fields are the message's.
C5_IngestRecordsOnce ==
    [][\A s \in Sessions :
          /\ (sess[s].pc = "idle" /\ sess'[s].pc = "insert")
                => LET m == sess'[s].msg
                   IN  /\ Count(m.agent_name, jobs'[m.job_name].agents_complete) = 1
                       /\ runs' = runs
          /\ (sess[s].pc = "insert" /\ sess'[s].pc # "insert")
                => LET m == sess[s].msg
                       row == runs'[Len(runs')]
                   IN  /\ sess'[s].pc = "check"
                       /\ Len(runs') = Len(runs) + 1
                       /\ SubSeq(runs', 1, Len(runs)) = runs
                       /\ TimestampMillis(row.started_at) = m.started_at
                       /\ TimestampMillis(row.completed_at) = m.completed_at
                       /\ row.job_name = m.job_name
                       /\ row.command = m.command
                       /\ row.agent_name = m.agent_name
                       /\ row.return_code = m.return_code
                       /\ row.output = m.output
                       /\ \/ m.outcome = "Failure" /\ row.outcome = 0
                          \/ m.outcome = "Success" /\ row.outcome = 1
                          \/ m.outcome = "Unknown" /\ row.outcome = 2]_vars

\* the same JobComplete was ingested twice: two equal rows, one list entry
C5_Witness ==
    /\ Len(runs) = 2
    /\ runs[1] = runs[2]
    /\ jobs["j1"].agents_complete = <<"a">>
    /\ \E s \in Sessions : sess[s].pc = "check"

\* C6: when the ingestion of a JobComplete has returned and left the job
\* either not Completed or Completed with both lists cleared, delivering the
\* same message once more leaves the job's status, agents_running and
\* agents_complete as they are.
C6_ReplayIdempotent ==
    [][\A s \in Sessions :
          LET m == sess[s].msg
          IN  (/\ IngestionEnds(s)
               /\ jobs'[m.job_name].status = Completed
                     => /\ jobs'[m.job_name].agents_running = <<>>
                        /\ jobs'[m.job_name].agents_complete = <<>>)
                  => Redeliver(jobs', m)[m.job_name] = jobs'[m.job_name]]_vars

\* C7: when run_job has finished with job J, whose required set is R and of
\* which O are connected, J is Running, agents_running(J) lies within O, and
\* nobody outside O was written to or recorded.
C7_AfterRunJob ==
    [][RunJobEnds
          => LET j == Head(tick'.queue).name
                 O == Range(jobs'[j].agents_required)
                          \cap {c.name : c \in connected_agents}
             IN  /\ jobs'[j].status = Running
                 /\ Range(jobs'[j].agents_running) \subseteq O
                 /\ tick'.acked \subseteq O
                 /\ \A a \in Range(jobs'[j].agents_required) \ O :
                       sent'[j][a] = 0]_vars

\* C8: when run_job has finished with job J, every agent that acknowledged
\* J's DispatchJob in this tick is in agents_running(J).
C8_AckedAreRunning ==
    [][RunJobEnds
          => tick'.acked
                \subseteq Range(jobs'[Head(tick'.queue).name].agents_running)]_vars

\* C9: the claim step changes a job's status exactly when the job is Pending,
\* due, has nobody running and requires some agent in the connection map, and
\* the change is from Pending to Running; every other job keeps its status.
C9_ClaimExactlyClaimable ==
    [][TickStart
          => \A j \in JobNames :
                LET claimable ==
                        /\ jobs[j].status = Pending
                        /\ jobs[j].next_run < now
                        /\ jobs[j].agents_running = <<>>
                        /\ Range(jobs[j].agents_required)
                              \cap {c.name : c \in connected_agents} # {}
                IN  /\ (jobs'[j].status # jobs[j].status) <=> claimable
                    /\ claimable => jobs'[j].status = Running
                    /\ jobs'[j] = [jobs[j] EXCEPT !.status = jobs'[j].status]]_vars

\* a tick has just claimed and fetched j1 and left the due j2 alone
C9_Witness ==
    /\ tick.pc = "run"
    /\ tick.acked = {}
    /\ Head(tick.queue).name = "j1"
    /\ jobs["j1"].status = Running
    /\ jobs["j2"].status = Pending
    /\ jobs["j2"].next_run < now

\* C10: a job whose agents_required is empty stays Pending and no DispatchJob
\* for it reaches any agent, whoever is connected.
C10_EmptyRequiredNeverClaimed ==
    \A j \in JobNames :
        jobs[j].agents_required = <<>>
            => /\ jobs[j].status = Pending
               /\ \A a \in AgentNames : sent[j][a] = 0

\* ticks have come and gone with both agents connected and j2 long due
C10_Witness ==
    /\ jobs["j2"].agents_required = <<>>
    /\ jobs["j2"].next_run < now
    /\ Cardinality(connected_agents) = 2
    /\ jobs["j1"].status = Completed
    /\ tick.pc = "sleep"

RunsRows(j, n) ==
    Cardinality({i \in DOMAIN runs :
                    runs[i].job_name = j /\ runs[i].agent_name = n})

PartiallyDispatched(j, x, y) ==
    /\ x # y
    /\ Range(jobs[j].agents_required) = {x, y}
    /\ jobs[j].status = Running
    /\ jobs[j].agents_running = <<x>>
    /\ sent[j][y] = 0
    /\ \A c \in tick.todo : c.name # y

\* C13: once a job requiring a and b has been dispatched to a alone
\* (agents_running=[a]), it stays Running in every later state, no later tick
\* writes another DispatchJob for it even when b connects, and a's JobComplete
\* leaves agents_complete=[a] without completing it.
C13_PartialConnectivity ==
    [][\A j \in JobNames : \A x, y \in AgentNames :
          PartiallyDispatched(j, x, y)
              => /\ PartiallyDispatched(j, x, y)'
                 /\ sent'[j] = sent[j]
                 /\ jobs'[j].agents_complete \in {jobs[j].agents_complete, <<x>>}
                 /\ jobs[j].agents_complete \in {<<>>, <<x>>}]_vars

\* a has reported, b has connected since, every session has returned and the
\* dispatcher sleeps: j1 is still Running with b never written to
C13_Witness ==
    /\ PartiallyDispatched("j1", "a", "b")
    /\ jobs["j1"].agents_complete = <<"a">>
    /\ "b" \in ConnectedNames
    /\ tick.pc = "sleep"
    /\ \A s \in Sessions : sess[s].pc = "idle"
    /\ outbox["a"] = <<>>
    /\ RunsRows("j1", "a") >= 1

\* C14: a tick fetches for dispatch only jobs it has itself just claimed
\* (Pending before its claim); as no job returns to Pending, a job is fetched
\* by one tick at most, and one left Running with empty agents_running is not
\* picked up by a later tick.
C14_FetchedOnlyWhenClaimed ==
    [][(tick.pc = "sleep" /\ tick'.pc = "run")
          => \A i \in DOMAIN tick'.queue :
                 jobs[tick'.queue[i].name].status = Pending]_vars

\* C15: when the link to agent a has failed after a's DispatchJob was
\* acknowledged and recorded and before a reported, the next ping sweep
\* removes a from the connection map, sets its status Offline and leaves the
\* job as it is: Running, a in agents_running, a not in agents_complete.
C15_DropMidDispatch ==
    [][\A j \in JobNames : \A c \in connected_agents :
          (/\ PingSweep
           /\ c \in broken
           /\ jobs[j].status = Running
           /\ c.name \in Range(jobs[j].agents_running)
           /\ c.name \notin Range(jobs[j].agents_complete))
              => /\ c \notin connected_agents'
                 /\ agents'[c.name].status = Offline
                 /\ jobs'[j] = jobs[j]
                 /\ jobs'[j].status = Running
                 /\ c.name \in Range(jobs'[j].agents_running)
                 /\ c.name \notin Range(jobs'[j].agents_complete)]_vars

\* a was pinged Online, took j1, and then a sweep found its link dead; j1 is
\* as the dispatcher left it
C15_Witness ==
    /\ jobs["j1"].status = Running
    /\ jobs["j1"].agents_running = <<"a">>
    /\ jobs["j1"].agents_complete = <<>>
    /\ sent["j1"]["a"] = 1
    /\ "a" \notin ConnectedNames
    /\ agents["a"].status = Offline
    /\ agents["a"].last_ping > 0

\* C16: for every Message M, decoding the bytes that encoding M produced
\* succeeds and gives a message equal to M.
C16_CodecRoundTrip ==
    wire.pc = "decoded" => wire.handled = wire.msgs

\* a DispatchJob without agent_name and with a negative return code has gone
\* through the encoder and the decoder
C16_Witness ==
    /\ wire.link = "codec"
    /\ wire.pc = "decoded"
    /\ wire.handled # <<>>
    /\ wire.msgs[1].kind = "DispatchJob"
    /\ wire.msgs[1].agent_name = <<>>
    /\ wire.msgs[1].valid_return_codes = <<<<0, -1>>>>
    /\ Len(wire.net) > 1

\* C17: on both links every message is emitted as a 4-byte big-endian length
\* followed by exactly that many payload bytes, and the receiver hands on the
\* same messages in the same order however the bytes are cut into segments.
C17_Framing ==
    /\ wire.emitted = FramesOf(SubSeq(wire.msgs, 1, wire.written))
    /\ Len(wire.handled) <= Len(wire.msgs)
    /\ wire.handled = SubSeq(wire.msgs, 1, Len(wire.handled))
    /\ (/\ wire.written = Len(wire.msgs)
        /\ wire.net = <<>>
        /\ wire.stream = <<>>
        /\ wire.pc \in {"length", "listen"})
           => wire.handled = wire.msgs

\* C18: a frame whose length field is 0 ends the ingestor session cleanly: the
\* loop returns without error, no OK is written for it, no message is
\* interpreted and no store document changes, then or afterwards.
C18_ZeroLengthEndsSession ==
    [][/\ (/\ SessReadLength
           /\ Len(wire.stream) >= 4
           /\ SubSeq(wire.stream, 1, 4) = ZeroFrame)
          => /\ wire'.pc = "closed"
             /\ wire'.oks = wire.oks
             /\ wire'.handled = wire.handled
             /\ <<jobs, agents, runs>>' = <<jobs, agents, runs>>
       /\ wire.pc = "closed"
          => /\ wire'.pc = "closed"
             /\ wire'.oks = wire.oks
             /\ wire'.handled = wire.handled
             /\ <<jobs, agents, runs>>' = <<jobs, agents, runs>>]_vars

\* a's JobComplete was handled, then a frame of length 0 closed the session
\* with the peer still connected
C18_Witness ==
    /\ wire.pc = "closed"
    /\ ~wire.fin
    /\ Len(wire.msgs) >= 2
    /\ wire.msgs[2] = NoMessage
    /\ Len(wire.handled) = 1
    /\ wire.oks = 1
    /\ jobs["j1"].status = Completed
    /\ wire.net = <<>>

\* C19: ingesting a RegisterAgent whose name, or hostname and port, is already
\* in agents leaves the collection as it is (no new document, status and
\* last_ping of the existing one kept), and the session goes on to the next
\* frame.
C19_ReRegistrationNoOp ==
    [][(/\ SessHandle
        /\ FromBytes(wire.received_data) # <<>>
        /\ FromBytes(wire.received_data)[1].kind = "RegisterAgent"
        /\ LET m == FromBytes(wire.received_data)[1]
           IN  DuplicateKey(agents, m.name, AgentFromRegister(m.hostname)))
          => /\ agents' = agents
             /\ jobs' = jobs
             /\ runs' = runs
             /\ wire'.pc = "length"
             /\ wire'.oks = wire.oks + 1]_vars

\* a registered again while Online, and the session went on to ingest the
\* JobComplete that followed
C19_Witness ==
    /\ Len(wire.handled) = 2
    /\ wire.handled[1] = RegisterAgentFor("a")
    /\ wire.handled[2].kind = "JobComplete"
    /\ agents["a"].status = Online
    /\ agents["a"].last_ping = 1
    /\ DOMAIN agents = {"a"}
    /\ jobs["j1"].status = Completed

ChildOutputs == {<<>>} \cup {<<[code |-> c]>> : c \in {<<>>, <<0>>, <<1>>}}

\* output.as_ref().and_then(|o| o.status.code())
StatusCode(output) == IF output = <<>> THEN <<>> ELSE output[1].code

\* the valid_return_codes a DispatchJob can carry
ValidReturnCodes == {<<>>, <<<<>>>>, <<<<0>>>>, <<<<1>>>>, <<<<0, -1>>>>}

\* a DispatchJob as the listener hands it to spawn, started at start_time
SpawnedJob(valid_return_codes, start_time) ==
    [job_name |-> "j1", command |-> "/bin/true",
     valid_return_codes |-> valid_return_codes, started_at |-> start_time]

\* both agents have spawned the child of one DispatchJob for j1
InitExecutor ==
    /\ now = 2
    /\ jobs = [j \in JobNames |->
                 IF j = "j1"
                 THEN [JobDoc(1, "/bin/true", <<"a", "b">>) EXCEPT
                          !.status = Running, !.agents_running = <<"b">>]
                 ELSE JobDoc(0, "/bin/false", <<>>)]
    /\ agents = [a \in AgentNames |-> AgentFromRegister(a)]
    /\ runs = <<>>
    /\ connected_agents = {ConnectedAgent(a, AgentFromRegister(a)) : a \in AgentNames}
    /\ broken = {}
    /\ down = {}
    /\ tick = SleepingTick
    /\ \E va, vb \in ValidReturnCodes :
          executing = [a \in AgentNames |->
                         <<SpawnedJob(IF a = "a" THEN va ELSE vb, 1)>>]
    /\ agent_clock = [a \in AgentNames |-> 2]
    /\ outbox = [a \in AgentNames |-> <<>>]
    /\ sess = [s \in Sessions |-> IdleSession]
    /\ sent = [j \in JobNames |-> [a \in AgentNames |-> IF j = "j1" THEN 1 ELSE 0]]
    /\ events = 1
    /\ wire = WireIdle
    /\ rt = WorkersIdle
    /\ rl = ReporterIdle

\* a task that reports only the children it could spawn
PostedWhenSpawned(output, job_complete) ==
    IF output = <<>> THEN <<>> ELSE <<job_complete>>

\* sender.send(job_complete): what the task puts into the channel, whatever
\* command.output() gave
Posted(output, job_complete) ==
    <<job_complete>>

\* the task of spawn from command.output() on: the return code, the outcome,
\* the JobComplete sent into the channel
SpawnEnds(a, i, output) ==
    /\ i \in DOMAIN executing[a]
    /\ outbox' = [outbox EXCEPT ![a] =
                     @ \o Posted(output,
                                 JobCompleteFor(a, executing[a][i],
                                                StatusCode(output), agent_clock[a]))]
    /\ agent_clock' = [agent_clock EXCEPT ![a] = @ + 1]
    /\ executing' = [executing EXCEPT ![a] = RemoveAt(@, i)]
    /\ UNCHANGED <<rt, rl, wire, now, jobs, agents, runs, connected_agents, broken, down,
                   tick, sess, sent, events>>

NextExecutor ==
    \E a \in AgentNames, output \in ChildOutputs : SpawnEnds(a, 1, output)

SpecExecutor == InitExecutor /\ [][NextExecutor]_vars

\* the JobComplete an agent queued last
LastQueued(a) == outbox[a][Len(outbox[a])]

\* C21: the JobComplete emitted for a DispatchJob has outcome Success exactly
\* when valid_return_codes is present and contains the observed return code;
\* when it is absent or empty the outcome is Failure whatever the code.
C21_OutcomeClassification ==
    [][\A a \in AgentNames, output \in ChildOutputs :
          SpawnEnds(a, 1, output)
             => LET vrc == executing[a][1].valid_return_codes
                    m == LastQueued(a)'
                IN  /\ m.return_code = ReturnCode(StatusCode(output))
                    /\ (m.outcome = "Success")
                          <=> (vrc # <<>> /\ m.return_code \in Range(vrc[1]))
                    /\ m.outcome \in {"Success", "Failure"}
                    /\ (vrc = <<>> \/ vrc[1] = <<>>) => m.outcome = "Failure"]_vars

\* a's child exited 0 with no valid codes given (Failure) and b's exited 1
\* with [1] given (Success)
C21_Witness ==
    /\ outbox["a"] # <<>>
    /\ outbox["b"] # <<>>
    /\ LastQueued("a").return_code = 0
    /\ LastQueued("a").outcome = "Failure"
    /\ LastQueued("b").return_code = 1
    /\ LastQueued("b").outcome = "Success"

\* C22: when the child was ended by a signal (no exit code) or could not be
\* spawned, the JobComplete has return_code -1 and outcome Failure, whatever
\* valid_return_codes is.
C22_SignalledIsFailure ==
    [][\A a \in AgentNames, output \in ChildOutputs :
          (SpawnEnds(a, 1, output) /\ StatusCode(output) = <<>>)
             => /\ LastQueued(a)'.return_code = -1
                /\ LastQueued(a)'.outcome = "Failure"]_vars

\* ---- the three tasks of AgentManager::start and the mutex of the manager
\* get_jobs_to_run errors a run may see
MaxFetchErrors == 1

\* a lock().await that never waits
LockFreeAlways(guards) == TRUE

\* Mutex::lock: granted when no guard is alive
LockFree(guards) == guards = {}

\* the connected agents whose stream works and who never answer
SilentAgents == {c \in connected_agents : c \notin broken /\ c.name \in rt.silent}

\* the store has both agents and a due job for both; every task is about to
\* lock; at most one agent reads frames without ever answering
InitWorkers ==
    /\ now = 2
    /\ jobs = [j \in JobNames |->
                 IF j = "j1" THEN JobDoc(1, "/bin/true", <<"a", "b">>)
                 ELSE JobDoc(0, "/bin/false", <<>>)]
    /\ agents = [a \in AgentNames |-> AgentFromRegister(a)]
    /\ runs = <<>>
    /\ \E conn \in SUBSET AgentNames :
          /\ connected_agents = {ConnectedAgent(a, AgentFromRegister(a)) : a \in conn}
          /\ \E br \in SUBSET conn :
                broken = {ConnectedAgent(a, AgentFromRegister(a)) : a \in br}
    /\ down = {}
    /\ tick = SleepingTick
    /\ executing = [a \in AgentNames |-> <<>>]
    /\ agent_clock = [a \in AgentNames |-> 1]
    /\ outbox = [a \in AgentNames |-> <<>>]
    /\ sess = [s \in Sessions |-> IdleSession]
    /\ sent = [j \in JobNames |-> [a \in AgentNames |-> 0]]
    /\ events = 0
    /\ wire = WireIdle
    /\ \E silent \in {{}, {"a"}} :
          rt = [guards |-> {}, pc |-> [w \in Workers |-> "wait"],
                silent |-> silent, fetch_errors |-> 0]
    /\ rl = ReporterIdle

\* manager_clone.lock().await returns the guard
WorkerLock(w) ==
    /\ rt.pc[w] = "wait"
    /\ LockFree(rt.guards)
    /\ rt' = [rt EXCEPT !.guards = @ \cup {w}, !.pc[w] = "locked"]
    /\ UNCHANGED <<rl, wire, now, jobs, agents, runs, connected_agents, broken,
                   down, tick, executing, agent_clock, outbox, sess, sent, events>>

\* drop(manager_lock), then the task sleeps
WorkerUnlock(w) ==
    /\ \/ rt.pc[w] = "done"
       \/ w = "dispatch" /\ rt.pc[w] = "body" /\ tick.pc = "sleep"
    /\ rt' = [rt EXCEPT !.guards = @ \ {w}, !.pc[w] = "sleep"]
    /\ UNCHANGED <<rl, wire, now, jobs, agents, runs, connected_agents, broken,
                   down, tick, executing, agent_clock, outbox, sess, sent, events>>

\* the sleep ends and the loop starts over
WorkerWake(w) ==
    /\ rt.pc[w] = "sleep"
    /\ rt' = [rt EXCEPT !.pc[w] = "wait"]
    /\ UNCHANGED <<rl, wire, now, jobs, agents, runs, connected_agents, broken,
                   down, tick, executing, agent_clock, outbox, sess, sent, events>>

\* ping_existing_agents when every agent answers or fails
PingBody ==
    /\ rt.pc["ping"] = "locked"
    /\ SilentAgents = {}
    /\ LET agents_to_remove == connected_agents \cap broken
           reached == connected_agents \ broken
       IN  /\ agents' = UpdateAgentOffline(
                            UpdateAgentOnline(agents, {c.name : c \in reached}, now),
                            {c.name : c \in agents_to_remove})
           /\ connected_agents' = connected_agents \ agents_to_remove
           /\ broken' = broken \ agents_to_remove
    /\ rt' = [rt EXCEPT !.pc["ping"] = "done"]
    /\ UNCHANGED <<rl, wire, now, jobs, runs, down, tick, executing, agent_clock,
                   outbox, sess, sent, events>>

\* ping_existing_agents reaches an agent that never answers: the agents the
\* map yielded before it were pinged, then read_exact never returns
PingBlocked(c) ==
    /\ rt.pc["ping"] = "locked"
    /\ c \in SilentAgents
    /\ \E before \in SUBSET (connected_agents \ SilentAgents) :
          agents' = UpdateAgentOnline(agents, {b.name : b \in before \ broken}, now)
    /\ rt' = [rt EXCEPT !.pc["ping"] = "blocked"]
    /\ UNCHANGED <<rl, wire, now, jobs, runs, connected_agents, broken, down, tick,
                   executing, agent_clock, outbox, sess, sent, events>>

\* check_for_unconnected_agents
DiscoverBody ==
    /\ rt.pc["discover"] = "locked"
    /\ LET unconnected == FetchUnconnectedAgents(agents, connected_agents)
           dialled == {f \in unconnected : f.address \notin down}
       IN  /\ connected_agents' = connected_agents \cup dialled
           /\ agents' = UpdateAgentOffline(agents,
                                           {f.name : f \in unconnected \ dialled})
    /\ rt' = [rt EXCEPT !.pc["discover"] = "done"]
    /\ UNCHANGED <<rl, wire, now, jobs, runs, broken, down, tick, executing,
                   agent_clock, outbox, sess, sent, events>>

\* get_jobs_to_run returns Ok: the claimed jobs are fetched, run_job starts
DispatchFetch ==
    /\ rt.pc["dispatch"] = "locked"
    /\ tick.pc = "sleep"
    /\ LET claimed == ClaimJobs(jobs, ConnectedNames, now)
           fetched == FetchJobs(claimed)
       IN  /\ jobs' = claimed
           /\ tick' = IF fetched = <<>>
                      THEN SleepingTick
                      ELSE [pc |-> "run", queue |-> fetched,
                            todo |-> AgentsToRun(Head(fetched), connected_agents),
                            cur |-> NoAgent, acked |-> {}]
    /\ rt' = [rt EXCEPT !.pc["dispatch"] = "body"]
    /\ UNCHANGED <<rl, wire, now, agents, runs, connected_agents, broken, down,
                   executing, agent_clock, outbox, sess, sent, events>>

\* get_jobs_to_run returns Err: continue, which drops the guard and goes
\* back to lock() without sleeping
DispatchFetchErr ==
    /\ rt.pc["dispatch"] = "locked"
    /\ rt.fetch_errors < MaxFetchErrors
    /\ rt' = [rt EXCEPT !.guards = @ \ {"dispatch"}, !.pc["dispatch"] = "wait",
                        !.fetch_errors = @ + 1]
    /\ UNCHANGED <<rl, wire, now, jobs, agents, runs, connected_agents, broken,
                   down, tick, executing, agent_clock, outbox, sess, sent, events>>

\* write_to_agent(DispatchJob) to an agent that never answers: the frame is
\* read by the agent, then read_exact never returns
DispatchBlocked(c) ==
    /\ rt.pc["dispatch"] = "body"
    /\ tick.pc = "run"
    /\ c \in tick.todo
    /\ c \in SilentAgents
    /\ sent' = [sent EXCEPT ![Head(tick.queue).name][c.name] = @ + 1]
    /\ rt' = [rt EXCEPT !.pc["dispatch"] = "blocked"]
    /\ UNCHANGED <<rl, wire, now, jobs, agents, runs, connected_agents, broken,
                   down, tick, executing, agent_clock, outbox, sess, events>>

\* run_job while the guard is held, on the agents that answer
DispatchStep ==
    /\ rt.pc["dispatch"] = "body"
    /\ \/ \E c \in connected_agents \ SilentAgents : TickWriteOk(c)
       \/ \E c \in connected_agents : TickWriteErr(c)
       \/ TickAddRunning
       \/ TickJobDone

NextWorkers ==
    \/ \E w \in Workers : WorkerLock(w)
    \/ \E w \in Workers : WorkerUnlock(w)
    \/ \E w \in Workers : WorkerWake(w)
    \/ PingBody
    \/ \E c \in connected_agents : PingBlocked(c)
    \/ DiscoverBody
    \/ DispatchFetch
    \/ DispatchFetchErr
    \/ \E c \in connected_agents : DispatchBlocked(c)
    \/ DispatchStep

SpecWorkers == InitWorkers /\ [][NextWorkers]_vars

\* the steps of one task
WorkerTask(w) ==
    \/ WorkerUnlock(w)
    \/ WorkerWake(w)
    \/ w = "ping" /\ (PingBody \/ \E c \in connected_agents : PingBlocked(c))
    \/ w = "discover" /\ DiscoverBody
    \/ w = "dispatch" /\ (\/ DispatchFetch
                          \/ \E c \in connected_agents : DispatchBlocked(c)
                          \/ DispatchStep)

\* the runtime polls every task that can go on, and the mutex hands the guard
\* to its waiters in turn
WorkersFairness ==
    \A w \in Workers : WF_vars(WorkerTask(w)) /\ SF_vars(WorkerLock(w))

SpecWorkersLive == SpecWorkers /\ WorkersFairness

\* the tasks that touch the connection map or an agent stream
InSweep == {w \in Workers : rt.pc[w] \in {"locked", "body", "blocked", "done"}}

\* C23: at most one of the Discover, Ping and Dispatch sweeps is executing at
\* any time, a sweep executes only with the lock, and a task that sleeps or
\* waits for the lock holds no guard, after a normal sweep and after the
\* dispatch tick's error path alike.
C23_SweepsExclusive ==
    /\ Cardinality(InSweep) <= 1
    /\ rt.guards = InSweep
    /\ \A w \in Workers : rt.pc[w] \in {"sleep", "wait"} => w \notin rt.guards

\* the dispatch tick took its error path and waits for the lock while the
\* ping sweep holds it and the discover task sleeps
C23_Witness ==
    /\ rt.fetch_errors > 0
    /\ rt.pc["dispatch"] = "wait"
    /\ rt.pc["ping"] = "locked"
    /\ rt.pc["discover"] = "sleep"
    /\ rt.guards = {"ping"}

\* C24: even if one connected agent reads frames and never answers, each of
\* the three tasks finishes its sweep and sleeps again and again.
C24_WorkersKeepSweeping ==
    \A w \in Workers : []<>(rt.pc[w] = "sleep")

\* ---- run_job on its own: the dispatch task with links that fail
\* both agents are registered, j1 is due and requires both; any of them may
\* be connected, over a stream that works or not
InitRunJob ==
    /\ now = 2
    /\ jobs = [j \in JobNames |->
                 IF j = "j1" THEN JobDoc(1, "/bin/true", <<"a", "b">>)
                 ELSE JobDoc(0, "/bin/false", <<>>)]
    /\ agents = [a \in AgentNames |-> AgentFromRegister(a)]
    /\ runs = <<>>
    /\ \E conn \in SUBSET AgentNames :
          /\ connected_agents = {ConnectedAgent(a, AgentFromRegister(a)) : a \in conn}
          /\ \E br \in SUBSET conn :
                broken = {ConnectedAgent(a, AgentFromRegister(a)) : a \in br}
    /\ down = {}
    /\ tick = SleepingTick
    /\ executing = [a \in AgentNames |-> <<>>]
    /\ agent_clock = [a \in AgentNames |-> 1]
    /\ outbox = [a \in AgentNames |-> <<>>]
    /\ sess = [s \in Sessions |-> IdleSession]
    /\ sent = [j \in JobNames |-> [a \in AgentNames |-> 0]]
    /\ events = 0
    /\ wire = WireIdle
    /\ rt = WorkersIdle
    /\ rl = ReporterIdle

NextRunJob ==
    \/ TickStart
    \/ \E c \in connected_agents : TickWriteOk(c)
    \/ \E c \in connected_agents : TickWriteAckLost(c)
    \/ \E c \in connected_agents : TickWriteErr(c)
    \/ TickAddRunning
    \/ TickJobDone
    \/ \E c \in connected_agents : LinkFail(c)

SpecRunJob == InitRunJob /\ [][NextRunJob]_vars

\* C25: a failed dispatch to one agent (write error or missing OK) leaves the
\* job document alone and the other agents of the job still to be sent, and
\* when run_job ends every connected agent the job requires was either
\* acknowledged or had failed; an agent that failed is in agents_running only
\* if the fetched document had it there.
C25_FailedDispatchSkipsAgent ==
    /\ [][\A c \in connected_agents :
             (TickWriteErr(c) \/ TickWriteAckLost(c))
                => /\ tick'.todo = tick.todo \ {c}
                   /\ tick'.pc = "run"
                   /\ tick'.queue = tick.queue
                   /\ jobs' = jobs]_vars
    /\ [][TickJobDone
             => LET job == Head(tick.queue)
                IN  \A c \in AgentsToRun(job, connected_agents) :
                       /\ c.name \in tick.acked \/ c \in broken
                       /\ (c.name \notin tick.acked
                             /\ c.name \in Range(jobs[job.name].agents_running))
                          => c.name \in Range(job.doc.agents_running)]_vars

\* run_job is about to return for j1: the write to a failed, b was sent the
\* DispatchJob afterwards or before and acknowledged it, and only b is running
C25_Witness ==
    /\ tick.pc = "run"
    /\ tick.todo = {}
    /\ Head(tick.queue).name = "j1"
    /\ {c.name : c \in AgentsToRun(Head(tick.queue), connected_agents)} = {"a", "b"}
    /\ tick.acked = {"b"}
    /\ sent["j1"]["b"] = 1
    /\ jobs["j1"].agents_running = <<"b">>

\* ---- one agent's CentralCommandWriter, its mutex and its three callers
MAX_ATTEMPTS == 60
\* connect attempts one write call is followed for
MaxConnects == 61
\* failures of the coordinator a run may see
MaxOutages == 2

\* the chunks of CHUNKS_SIZE bytes the caller's message is written in: a
\* JobComplete with a long output takes two
NChunks(c) == IF c = "complete" THEN 2 ELSE 1

\* a lock on the writer that never waits
WriterFreeAlways(guards) == TRUE

\* central_command_writer.lock().await: granted when no guard is alive
WriterFree(guards) == guards = {}

\* the agent has connected, every caller has a message and is about to lock
InitReporter ==
    /\ InitDispatched
    /\ wire = WireIdle
    /\ rt = WorkersIdle
    /\ rl = [ReporterIdle EXCEPT !.pc = [c \in Callers |-> "wait"]]

\* everything but the writer
ReporterOnly ==
    UNCHANGED <<rt, wire, now, jobs, agents, runs, connected_agents, broken, down,
                tick, executing, agent_clock, outbox, sess, sent, events>>

\* lock().await returns the guard and write starts its first pass
CallerLock(c) ==
    /\ rl.pc[c] = "wait"
    /\ WriterFree(rl.guards)
    /\ rl' = [rl EXCEPT !.guards = @ \cup {c}, !.pc[c] = "write",
                        !.offset[c] = 0, !.attempts[c] = 0]
    /\ ReporterOnly

\* the position after a chunk was taken by write_all
AfterChunk(c) == IF rl.offset[c] + 1 = NChunks(c) THEN "read" ELSE "write"

\* stream.write_all(chunk) on a stream that reaches the coordinator
WriteChunk(c) ==
    /\ rl.pc[c] = "write"
    /\ rl.alive
    /\ rl' = [rl EXCEPT !.bytes = Append(@, [by |-> c, chunk |-> rl.offset[c] + 1]),
                        !.offset[c] = @ + 1, !.pc[c] = AfterChunk(c)]
    /\ ReporterOnly

\* stream.write_all(chunk) on a stream whose peer is gone, taken by the
\* kernel and never delivered
WriteChunkLost(c) ==
    /\ rl.pc[c] = "write"
    /\ ~ rl.alive
    /\ rl' = [rl EXCEPT !.offset[c] = @ + 1, !.pc[c] = AfterChunk(c)]
    /\ ReporterOnly

\* stream.write_all(chunk) returns Err: reconnect_to_central_command is called
WriteChunkErr(c) ==
    /\ rl.pc[c] = "write"
    /\ ~ rl.alive
    /\ rl' = [rl EXCEPT !.pc[c] = "reconnect_w", !.tries[c] = 0]
    /\ ReporterOnly

\* where write goes on after reconnect_to_central_command returned, Ok or
\* Err: after a write error it breaks out of the chunk loop and reads the
\* reply, after a read error it continues with a new pass
AfterReconnect(pc) == IF pc = "reconnect_w" THEN "read" ELSE "write"

\* TcpStream::connect succeeds: self.stream is a new stream
ConnectOk(c) ==
    /\ rl.pc[c] \in {"reconnect_w", "reconnect_r"}
    /\ rl.up
    /\ rl' = [rl EXCEPT !.alive = TRUE, !.bytes = <<>>, !.handled = 0,
                        !.replies = 0, !.offset[c] = 0,
                        !.pc[c] = AfterReconnect(rl.pc[c])]
    /\ ReporterOnly

\* TcpStream::connect fails: another attempt after RETRY_DELAY, or Err to
\* write after MAX_ATTEMPTS, which logs it and goes on with the old stream
ConnectFail(c) ==
    /\ rl.pc[c] \in {"reconnect_w", "reconnect_r"}
    /\ ~ rl.up
    /\ rl.attempts[c] < MaxConnects
    /\ rl' = [rl EXCEPT !.tries[c] = @ + 1, !.attempts[c] = @ + 1,
                        !.offset[c] = IF rl.tries[c] + 1 >= MAX_ATTEMPTS THEN 0 ELSE @,
                        !.pc[c] = IF rl.tries[c] + 1 >= MAX_ATTEMPTS
                                  THEN AfterReconnect(rl.pc[c]) ELSE @]
    /\ ReporterOnly

\* read_exact(reply) gives OK: write returns and the guard is dropped
ReadOk(c) ==
    /\ rl.pc[c] = "read"
    /\ rl.alive
    /\ rl.replies > 0
    /\ rl' = [rl EXCEPT !.replies = @ - 1, !.pc[c] = "returned",
                        !.guards = @ \ {c}, !.acked = @ \cup {c},
                        !.offset[c] = 0, !.tries[c] = 0, !.attempts[c] = 0]
    /\ ReporterOnly

\* read_exact(reply) returns Err: reconnect_to_central_command is called
ReadErr(c) ==
    /\ rl.pc[c] = "read"
    /\ ~ rl.alive
    /\ rl' = [rl EXCEPT !.pc[c] = "reconnect_r", !.tries[c] = 0]
    /\ ReporterOnly

\* the chunks the ingestor's session has not processed
Unhandled == SubSeq(rl.bytes, rl.handled + 1, Len(rl.bytes))

\* the unprocessed chunks start with caller c's whole message
WholeMessageOf(c, bs) ==
    /\ Len(bs) >= NChunks(c)
    /\ \A k \in 1..NChunks(c) : bs[k] = [by |-> c, chunk |-> k]

\* the ingestor's session has read a whole message, handled it and written OK
IngestorReply ==
    /\ rl.alive
    /\ \E c \in Callers :
          /\ WholeMessageOf(c, Unhandled)
          /\ rl' = [rl EXCEPT !.handled = @ + NChunks(c), !.replies = @ + 1]
    /\ ReporterOnly

\* the coordinator stops: its sessions end and it accepts no connection
CoordinatorStop ==
    /\ rl.up
    /\ rl.outages < MaxOutages
    /\ rl' = [rl EXCEPT !.up = FALSE, !.alive = FALSE, !.outages = @ + 1]
    /\ ReporterOnly

\* the coordinator is started again
CoordinatorStart ==
    /\ ~ rl.up
    /\ rl' = [rl EXCEPT !.up = TRUE]
    /\ ReporterOnly

NextReporter ==
    \/ \E c \in Callers : CallerLock(c)
    \/ \E c \in Callers : WriteChunk(c)
    \/ \E c \in Callers : WriteChunkLost(c)
    \/ \E c \in Callers : WriteChunkErr(c)
    \/ \E c \in Callers : ConnectOk(c)
    \/ \E c \in Callers : ConnectFail(c)
    \/ \E c \in Callers : ReadOk(c)
    \/ \E c \in Callers : ReadErr(c)
    \/ IngestorReply
    \/ CoordinatorStop
    \/ CoordinatorStart

SpecReporter == InitReporter /\ [][NextReporter]_vars

\* the chunks on the stream are whole messages one after the other, the last
\* one possibly still being written
NoInterleaving(bs) ==
    \A i \in DOMAIN bs :
       /\ bs[i].chunk > 1
             => i > 1 /\ bs[i - 1] = [by |-> bs[i].by, chunk |-> bs[i].chunk - 1]
       /\ (bs[i].chunk = 1 /\ i > 1) => bs[i - 1].chunk = NChunks(bs[i - 1].by)

\* the callers inside write: their message may be written and has no OK yet
Unacknowledged == {c \in Callers : rl.pc[c] \notin {"wait", "returned"}}

\* C26: when write waits for the OK on a stream that reaches the coordinator,
\* the whole message was written on that stream, so that after a write or a
\* read error and a reconnect the message is emitted again before the wait.
C26_ReemittedBeforeWaiting ==
    \A c \in Callers :
       (rl.pc[c] = "read" /\ rl.alive)
          => \/ rl.replies > 0
             \/ \E i \in 0..Len(rl.bytes) :
                   WholeMessageOf(c, SubSeq(rl.bytes, i + 1, Len(rl.bytes)))

\* C27: one write call makes at most MAX_ATTEMPTS connect attempts.
C27_RetryBounded ==
    \A c \in Callers : rl.attempts[c] <= MAX_ATTEMPTS

\* C28: with the three callers contending for the writer, the chunks of two
\* messages never interleave on the stream and at most one message is
\* written and not yet acknowledged.
C28_WriterExclusive ==
    /\ NoInterleaving(rl.bytes)
    /\ Cardinality(Unacknowledged) <= 1
    /\ rl.guards = Unacknowledged

\* register was acknowledged, the JobComplete is half written and the ping
\* waits for the writer
C28_Witness ==
    /\ rl.acked = {"register"}
    /\ rl.pc["complete"] = "write"
    /\ rl.offset["complete"] = 1
    /\ rl.pc["ping"] = "wait"
    /\ rl.bytes = <<[by |-> "register", chunk |-> 1], [by |-> "complete", chunk |-> 1]>>

\* C29: a protocol error closes the session it occurred on, at the ingestor
\* and at the agent's listener alike: a frame cut short by the end of the
\* stream ends the ingestor's session, and a read whose bytes do not decode
\* ends the listener's.
C29_ProtocolErrorClosesSession ==
    /\ [][(SessReadBody /\ wire.stream = <<>>) => wire'.pc = "failed"]_vars
    /\ [][(/\ ListenRead
           /\ wire.stream # <<>>
           /\ FromBytes(SubSeq(wire.stream, 1,
                               Min(LISTEN_BUFFER, Len(wire.stream)))) = <<>>)
             => wire'.pc = "closed"]_vars

\* ---- the completion check on documents of any shape
\* a document without some of its fields
Without(doc, fields) == [f \in DOMAIN doc \ fields |-> doc[f]]

\* j1 as the check may find it: Running on a, with the lists drawn, and
\* possibly without agents_required or agents_complete
CheckedDocs ==
    {Without([JobDoc(1, "/bin/true", required) EXCEPT
                 !.status = Running, !.agents_running = <<"a">>,
                 !.agents_complete = complete],
             missing) :
        required \in {<<>>, <<"a">>, <<"a", "b">>},
        complete \in {<<>>, <<"a">>, <<"b", "a">>},
        missing \in SUBSET {"agents_required", "agents_complete"}}

\* the JobComplete whose check is due
CheckedMessage ==
    [kind |-> "JobComplete", started_at |-> 1, completed_at |-> 2,
     job_name |-> "j1", command |-> "/bin/true", agent_name |-> "a",
     return_code |-> 0, outcome |-> "Success", output |-> ""]

\* complete_agent_run has done its $addToSet for a's JobComplete for j1 in
\* one or both sessions; the run is inserted, then check_job_completion is
\* called; j1 may be gone
InitCheck ==
    /\ now = 2
    /\ \/ \E doc \in CheckedDocs :
             jobs = [j \in JobNames |->
                       IF j = "j1" THEN doc ELSE JobDoc(0, "/bin/false", <<>>)]
       \/ jobs = [j \in {"j2"} |-> JobDoc(0, "/bin/false", <<>>)]
    /\ agents = [a \in AgentNames |-> AgentFromRegister(a)]
    /\ runs = <<>>
    /\ connected_agents = {}
    /\ broken = {}
    /\ down = {}
    /\ tick = SleepingTick
    /\ executing = [a \in AgentNames |-> <<>>]
    /\ agent_clock = [a \in AgentNames |-> 3]
    /\ outbox = [a \in AgentNames |-> <<>>]
    /\ \E busy \in {{"s1"}, {"s1", "s2"}} :
          sess = [s \in Sessions |->
                    IF s \in busy
                    THEN [pc |-> "insert", msg |-> CheckedMessage, full |-> FALSE]
                    ELSE IdleSession]
    /\ sent = [j \in JobNames |-> [a \in AgentNames |-> 0]]
    /\ events = 0
    /\ wire = WireIdle
    /\ rt = WorkersIdle
    /\ rl = ReporterIdle

NextCheck ==
    \/ \E s \in Sessions : IngestInsertRun(s)
    \/ \E s \in Sessions : IngestCheckRead(s)
    \/ \E s \in Sessions : IngestCheckUpdate(s)

SpecCheck == InitCheck /\ [][NextCheck]_vars

\* the job the check looks for is absent or has lost one of its two lists
LacksLists(J, job_name) ==
    \/ job_name \notin DOMAIN J
    \/ "agents_required" \notin DOMAIN J[job_name]
    \/ "agents_complete" \notin DOMAIN J[job_name]

\* C30: when the job the completion check reads is absent, or its document
\* lacks agents_required or agents_complete, the check returns and no job
\* document changes.
C30_CheckLeavesJobsAlone ==
    [][\A s \in Sessions :
          (/\ sess[s].pc \in {"check", "update"}
           /\ sess'[s] # sess[s]
           /\ LacksLists(jobs, sess[s].msg.job_name))
             => /\ sess'[s] = IdleSession
                /\ jobs' = jobs]_vars

\* the check has returned for j1 whose document has no agents_complete
C30_Witness ==
    /\ "j1" \in DOMAIN jobs
    /\ "agents_complete" \notin DOMAIN jobs["j1"]
    /\ "agents_required" \in DOMAIN jobs["j1"]
    /\ jobs["j1"].status = Running
    /\ sess["s1"] = IdleSession
    /\ sess["s2"] = IdleSession

\* ---- the ingestor on its own: the last reports of a Running job
\* the JobComplete agent a sends for j1 with the given outcome
ReportOf(a, outcome) ==
    [kind |-> "JobComplete", started_at |-> 1, completed_at |-> 2,
     job_name |-> "j1", command |-> "/bin/true", agent_name |-> a,
     return_code |-> IF outcome = "Success" THEN 0 ELSE 1,
     outcome |-> outcome, output |-> ""]

\* j1 is Running on all its required agents, one or two, and each of them has
\* its JobComplete ready, a run that succeeded or one that failed
InitIngest ==
    /\ now = 3
    /\ \E required \in {<<"a">>, <<"a", "b">>} :
          /\ jobs = [j \in JobNames |->
                       IF j = "j1"
                       THEN [JobDoc(1, "/bin/true", required) EXCEPT
                                !.status = Running, !.agents_running = required]
                       ELSE JobDoc(0, "/bin/false", <<>>)]
          /\ \E oa, ob \in {"Success", "Failure"} :
                outbox = [a \in AgentNames |->
                            IF a \in Range(required)
                            THEN <<ReportOf(a, IF a = "a" THEN oa ELSE ob)>>
                            ELSE <<>>]
    /\ agents = [a \in AgentNames |-> AgentFromRegister(a)]
    /\ runs = <<>>
    /\ connected_agents = {ConnectedAgent(a, AgentFromRegister(a)) : a \in AgentNames}
    /\ broken = {}
    /\ down = {}
    /\ tick = SleepingTick
    /\ executing = [a \in AgentNames |-> <<>>]
    /\ agent_clock = [a \in AgentNames |-> 3]
    /\ sess = [s \in Sessions |-> IdleSession]
    /\ sent = [j \in JobNames |->
                 [a \in AgentNames |-> IF j = "j1" /\ a \in Range(jobs[j].agents_required)
                                       THEN 1 ELSE 0]]
    /\ events = 0
    /\ wire = WireIdle
    /\ rt = WorkersIdle
    /\ rl = ReporterIdle

NextIngest ==
    \/ \E s \in Sessions, a \in AgentNames : IngestJobComplete(s, a)
    \/ \E s \in Sessions : IngestInsertRun(s)
    \/ \E s \in Sessions : IngestCheckRead(s)
    \/ \E s \in Sessions : IngestCheckUpdate(s)

SpecIngest == InitIngest /\ [][NextIngest]_vars

\* every report was taken and every session has returned
IngestQuiet ==
    /\ \A a \in AgentNames : outbox[a] = <<>>
    /\ \A s \in Sessions : sess[s] = IdleSession

\* C31: a JobComplete is ingested the same way whatever its outcome: the
\* $addToSet leaves the agent in agents_complete, the insert appends the row
\* of the message, and once every required agent has reported the job is
\* Completed, also when runs failed.
C31_OutcomeBlindIngestion ==
    /\ [][\A s \in Sessions, a \in AgentNames :
             IngestJobComplete(s, a)
                => LET m == Head(outbox[a])
                   IN  /\ m.agent_name \in Range(jobs'[m.job_name].agents_complete)
                       /\ jobs' = MarkAgentComplete(
                                     jobs, [m EXCEPT !.outcome = "Success"])]_vars
    /\ [][\A s \in Sessions :
             IngestInsertRun(s)
                => /\ Len(runs') = Len(runs) + 1
                   /\ runs'[Len(runs')].agent_name = sess[s].msg.agent_name
                   /\ runs'[Len(runs')].outcome = OutcomeOf(sess[s].msg.outcome)]_vars
    /\ [](IngestQuiet => jobs["j1"].status = Completed)

\* j1 is Completed after its only required agent reported a run that failed
\* with return code 1
C31_Witness ==
    /\ IngestQuiet
    /\ jobs["j1"].status = Completed
    /\ jobs["j1"].agents_required = <<"a">>
    /\ Len(runs) = 1
    /\ runs[1].outcome = OutcomeOf("Failure")
    /\ runs[1].return_code = 1

\* C39: when the last two required agents of a Running job report on two
\* ingestor sessions, then however the sessions' $addToSet, insert, read and
\* update steps interleave, once both have returned the job is Completed,
\* agents_running and agents_complete are empty, and two runs rows were added.
C39_ConcurrentFinalReports ==
    (IngestQuiet /\ jobs["j1"].agents_required = <<"a", "b">>)
       => /\ jobs["j1"].status = Completed
          /\ jobs["j1"].agents_running = <<>>
          /\ jobs["j1"].agents_complete = <<>>
          /\ Len(runs) = 2
          /\ {runs[i].agent_name : i \in DOMAIN runs} = {"a", "b"}

\* both sessions have returned from the reports of a and b: j1 is Completed
\* and the two rows are there
C39_Witness ==
    /\ IngestQuiet
    /\ jobs["j1"].agents_required = <<"a", "b">>
    /\ jobs["j1"].status = Completed
    /\ Len(runs) = 2

\* C32: a ping sweep leaves every agent whose ping failed out of the
\* connection map and Offline in the store, and every agent whose ping
\* succeeded in the map, Online and with last_ping set to the time of the sweep.
C32_PingSweepOutcome ==
    [][PingSweep
          => \A c \in connected_agents :
                /\ c \in broken
                      => /\ c \notin connected_agents'
                         /\ agents'[c.name].status = Offline
                         /\ agents'[c.name].last_ping = agents[c.name].last_ping
                /\ c \notin broken
                      => /\ c \in connected_agents'
                         /\ agents'[c.name].status = Online
                         /\ agents'[c.name].last_ping = now]_vars

\* after a sweep at the present time a is connected and Online, and b, which
\* an earlier sweep had found reachable, was removed and set Offline
C32_Witness ==
    /\ DOMAIN agents = {"a", "b"}
    /\ "a" \in ConnectedNames
    /\ agents["a"].status = Online
    /\ agents["a"].last_ping = now
    /\ "b" \notin ConnectedNames
    /\ agents["b"].status = Offline
    /\ agents["b"].last_ping > 0
    /\ agents["b"].last_ping < now

\* C33: a discover sweep dials every store agent that no connected agent
\* shares its address with; those that answer are in the connection map and
\* Online when the sweep ends, the others are Offline and not in the map.
C33_DiscoverSweepOutcome ==
    [][DiscoverSweep
          => \A f \in FetchUnconnectedAgents(agents, connected_agents) :
                IF f.address \notin down
                THEN /\ f \in connected_agents'
                     /\ agents'[f.name].status = Online
                ELSE /\ f \notin connected_agents'
                     /\ agents'[f.name].status = Offline]_vars

\* ---- the registry sweeps on a store whose hostnames may resolve alike
\* a and b are registered, b under its own hostname or under a.local; a may
\* be connected already, over a stream that works or not
InitDiscover ==
    /\ now = 1
    /\ jobs = [j \in JobNames |-> JobDoc(0, "/bin/false", <<>>)]
    /\ \E hostname \in {"b", "a.local"} :
          agents = [n \in AgentNames |->
                      AgentFromRegister(IF n = "a" THEN "a" ELSE hostname)]
    /\ \E conn \in SUBSET {"a"} :
          /\ connected_agents = {ConnectedAgent(n, agents[n]) : n \in conn}
          /\ \E br \in SUBSET conn :
                broken = {ConnectedAgent(n, agents[n]) : n \in br}
    /\ down = {}
    /\ tick = SleepingTick
    /\ executing = [a \in AgentNames |-> <<>>]
    /\ agent_clock = [a \in AgentNames |-> 1]
    /\ outbox = [a \in AgentNames |-> <<>>]
    /\ runs = <<>>
    /\ sess = [s \in Sessions |-> IdleSession]
    /\ sent = [j \in JobNames |-> [a \in AgentNames |-> 0]]
    /\ events = 0
    /\ wire = WireIdle
    /\ rt = WorkersIdle
    /\ rl = ReporterIdle

NextDiscover ==
    \/ DiscoverSweep
    \/ PingSweep
    \/ ClockTick
    \/ \E c \in connected_agents : LinkFail(c)

SpecDiscover == InitDiscover /\ [][NextDiscover]_vars

\* C34: the connection map never holds two entries with the same address,
\* also when differently named store agents resolve to one address and are
\* found unconnected by the same sweep.
C34_OneEntryPerAddress ==
    \A c1, c2 \in connected_agents : c1.address = c2.address => c1 = c2

\* ---- an ingestor session, await by await, on a store that may fail
\* process_messages took the body for a message and did not write OK
AfterDecodeSilent(w) == [w EXCEPT !.pc = "handle"]

\* process_messages after try_into succeeded: OK is written, handle_message
\* is about to be called
AfterDecode(w) == [w EXCEPT !.pc = "handle", !.oks = @ + 1]

\* process_messages once the body is complete: decode (an error ends the
\* session) and write OK
SessReply ==
    /\ wire.link = "up"
    /\ wire.pc = "body"
    /\ Len(wire.received_data) = wire.msg_len
    /\ wire' = IF FromBytes(wire.received_data) = <<>>
               THEN [wire EXCEPT !.pc = "failed"]
               ELSE AfterDecode(wire)
    /\ StoreUnchanged

\* the message process_messages has decoded and not yet handled
Decoded == FromBytes(wire.received_data)[1]

\* handle_message returns Ok: back to the top of the loop
SessHandleMessage ==
    /\ wire.link = "up"
    /\ wire.pc = "handle"
    /\ wire' = [wire EXCEPT !.pc = "length", !.handled = Append(@, Decoded),
                            !.received_data = <<>>]
    /\ HandleMessage(Decoded)
    /\ UNCHANGED <<rt, rl, now, connected_agents, broken, down, tick, executing,
                   agent_clock, outbox, sess, sent, events>>

\* complete_agent_run when its $addToSet fails: the error is logged, the
\* run is inserted and the completion check runs on the job as it was
SessHandleUpdateErr ==
    /\ wire.link = "up"
    /\ wire.pc = "handle"
    /\ Decoded.kind = "JobComplete"
    /\ wire' = [wire EXCEPT !.pc = "length", !.handled = Append(@, Decoded),
                            !.received_data = <<>>]
    /\ runs' = Append(runs, RunsFromJobComplete(Decoded))
    /\ jobs' = IF CheckJobCompletion(jobs, Decoded.job_name)
               THEN CompleteJob(jobs, Decoded.job_name)
               ELSE jobs
    /\ UNCHANGED <<rt, rl, now, agents, connected_agents, broken, down, tick,
                   executing, agent_clock, outbox, sess, sent, events>>

\* complete_agent_run when insert_entry fails: the error goes up through
\* handle_message and process_messages, the check is not run
SessHandleInsertErr ==
    /\ wire.link = "up"
    /\ wire.pc = "handle"
    /\ Decoded.kind = "JobComplete"
    /\ wire' = [wire EXCEPT !.pc = "failed"]
    /\ jobs' = MarkAgentComplete(jobs, Decoded)
    /\ UNCHANGED <<rt, rl, now, agents, runs, connected_agents, broken, down, tick,
                   executing, agent_clock, outbox, sess, sent, events>>

\* complete_agent_run when a store call of check_job_completion fails: the
\* error goes up the same way, the job is not completed
SessHandleCheckErr ==
    /\ wire.link = "up"
    /\ wire.pc = "handle"
    /\ Decoded.kind = "JobComplete"
    /\ wire' = [wire EXCEPT !.pc = "failed"]
    /\ jobs' = MarkAgentComplete(jobs, Decoded)
    /\ runs' = Append(runs, RunsFromJobComplete(Decoded))
    /\ UNCHANGED <<rt, rl, now, agents, connected_agents, broken, down, tick,
                   executing, agent_clock, outbox, sess, sent, events>>

NextSessionSteps ==
    \/ \E k \in 1..Len(wire.net) : NetDeliver(k)
    \/ PeerClose
    \/ SessReadLength
    \/ SessReadBody
    \/ SessReply
    \/ SessHandleMessage
    \/ SessHandleUpdateErr
    \/ SessHandleInsertErr
    \/ SessHandleCheckErr

SpecSessionSteps == InitSession /\ [][NextSessionSteps]_vars

C38_StoreErrorKeepsSession ==
    [][wire.pc = "handle"
          => /\ wire'.pc # "failed"
             /\ (wire'.pc = "length" /\ Decoded.kind = "JobComplete")
                   => Len(runs') = Len(runs) + 1]_vars

\* ---- the agent's listener and its executor, message by message
\* a spawn that returns when the child has ended
SpawnReturnsAfterChild(children) == children = <<>>

\* job_dispatcher.spawn(job).await returns once the task is spawned,
\* whatever children are running
SpawnReturns(children) == TRUE

\* what the dispatch sweep and the ping sweep write to agent a: a Ping, or
\* a DispatchJob of either job
AgentFrames ==
    DownMessages \cup
        {[kind |-> "DispatchJob", job_name |-> "j2", command |-> "/bin/false",
          args |-> "", agent_name |-> <<"a">>, valid_return_codes |-> <<>>]}

\* the coordinator has connected to agent a and will send it the frames of
\* wire.msgs, each once the previous one has its OK
InitAgent ==
    /\ InitDispatched
    /\ rt = WorkersIdle
    /\ rl = ReporterIdle
    /\ \E ms \in SeqsUpTo(AgentFrames, MaxFrames) :
          wire = [WireIdle EXCEPT !.link = "agent", !.msgs = ms, !.pc = "listen"]

\* the frame the listener reads next
NextFrame == wire.msgs[Len(wire.handled) + 1]

\* one turn of the listener's loop on a whole message: handle_message, where
\* a DispatchJob is handed to spawn, then OK
ListenHandle ==
    /\ wire.link = "agent"
    /\ wire.pc = "listen"
    /\ Len(wire.handled) < Len(wire.msgs)
    /\ SpawnReturns(executing["a"])
    /\ wire' = [wire EXCEPT !.handled = Append(@, NextFrame), !.oks = @ + 1,
                            !.written = @ + 1]
    /\ IF NextFrame.kind = "DispatchJob"
       THEN /\ executing' = [executing EXCEPT !["a"] =
                                Append(@, [job_name |-> NextFrame.job_name,
                                           command |-> NextFrame.command,
                                           valid_return_codes |->
                                               NextFrame.valid_return_codes,
                                           started_at |-> agent_clock["a"]])]
            /\ agent_clock' = [agent_clock EXCEPT !["a"] = @ + 1]
       ELSE UNCHANGED <<executing, agent_clock>>
    /\ UNCHANGED <<rt, rl, now, jobs, agents, runs, connected_agents, broken, down,
                   tick, outbox, sess, sent, events>>

NextAgent ==
    \/ ListenHandle
    \/ \E i \in 1..MaxFrames, output \in ChildOutputs : SpawnEnds("a", i, output)

SpecAgent == InitAgent /\ [][NextAgent]_vars

\* the DispatchJobs among the frames handled so far
Dispatched == SelectSeq(wire.handled, LAMBDA m : m.kind = "DispatchJob")

\* C36: while the coordinator has a frame for the agent, the listener can
\* take it and answer OK whether or not children of earlier DispatchJobs are
\* still running, and answering a DispatchJob ends no child.
C36_ListenerDoesNotWaitForChild ==
    /\ []((wire.link = "agent" /\ Len(wire.handled) < Len(wire.msgs))
             => ENABLED ListenHandle)
    /\ [][(ListenHandle /\ NextFrame.kind = "DispatchJob")
             => /\ Len(executing'["a"]) = Len(executing["a"]) + 1
                /\ wire'.oks = wire.oks + 1
                /\ outbox' = outbox]_vars

\* two DispatchJobs were answered and both children are still running
C36_Witness ==
    /\ wire.link = "agent"
    /\ wire.oks = 2
    /\ Len(Dispatched) = 2
    /\ Len(executing["a"]) = 2
    /\ outbox["a"] = <<>>

\* C37: every DispatchJob handed to the executor is either running or has
\* posted exactly one JobComplete, whether its child exited normally, was
\* killed or could not be spawned, and every JobComplete posted is for a job
\* that was dispatched to this agent.
C37_OneReportPerDispatch ==
    /\ [](wire.link = "agent"
             => /\ Len(executing["a"]) + Len(outbox["a"]) = Len(Dispatched)
                /\ \A i \in DOMAIN outbox["a"] :
                      /\ outbox["a"][i].agent_name = "a"
                      /\ \E k \in DOMAIN Dispatched :
                            Dispatched[k].job_name = outbox["a"][i].job_name)
    /\ [][\A i \in 1..MaxFrames, output \in ChildOutputs :
             SpawnEnds("a", i, output)
                => /\ Len(outbox'["a"]) = Len(outbox["a"]) + 1
                   /\ LastQueued("a")'.job_name = executing["a"][i].job_name]_vars

\* two children have ended, one that could not be spawned and one that
\* exited 0, and each has its JobComplete in the channel
C37_Witness ==
    /\ wire.link = "agent"
    /\ Len(Dispatched) = 2
    /\ executing["a"] = <<>>
    /\ Len(outbox["a"]) = 2
    /\ outbox["a"][1].return_code = -1
    /\ outbox["a"][2].return_code = 0
    /\ outbox["a"][1].job_name # outbox["a"][2].job_name

\* C40: a step changes a job's status only from Pending to Running in the
\* claim at the start of a dispatch tick, or to Completed in the update of
\* the completion check; no status becomes Error or Pending again, and the
\* claim leaves the status of every Running or Completed job as it is.
C40_StatusTransitions ==
    [][\A j \in JobNames :
          /\ jobs'[j].status # jobs[j].status
                => \/ /\ TickStart
                      /\ jobs[j].status = Pending
                      /\ jobs'[j].status = Running
                   \/ /\ \E s \in Sessions :
                            IngestCheckUpdate(s) /\ sess[s].msg.job_name = j
                      /\ jobs'[j].status = Completed
          /\ jobs'[j].status # jobs[j].status
                => jobs'[j].status \notin {Error, Pending}
          /\ (TickStart /\ jobs[j].status \in {Running, Completed})
                => jobs'[j].status = jobs[j].status]_vars

\* j1 was claimed, run and completed; it is due, its agent is connected and
\* the dispatch task is about to claim again
C40_Witness ==
    /\ jobs["j1"].status = Completed
    /\ jobs["j1"].next_run < now
    /\ jobs["j1"].agents_running = <<>>
    /\ "a" \in ConnectedNames
    /\ tick.pc = "sleep"
    /\ runs # <<>>

====
